---- MODULE Spec2Model ----
(***************************************************************************)
(* K-Fix incident lifecycle: the alert store (database.py), the webhook    *)
(* ingress and the background alert worker (main.py), with the monitoring  *)
(* API (datadog_client.py) and the cluster discovery (k8s.py) as the       *)
(* environment the worker calls.                                           *)
(*                                                                         *)
(* Conventions.  Python None and SQL NULL are None where a string is       *)
(* expected and Null where a document or a timestamp is.  A missing        *)
(* payload key and an empty value are both "" (payload.get(k) is falsy in  *)
(* both cases).  Time is counted in minutes.  Every store operation takes  *)
(* a flag ok: FALSE is a backend failure or timeout, which sends the       *)
(* operation down its except branch.                                       *)
(***************************************************************************)
EXTENDS Naturals, Sequences, FiniteSets, TLC

\* ---------------------------------------------------------------- bounds
MaxTime == 2
MaxRequests == 2

\* ------------------------------------------------------------ basic values
None == "None"
Null == <<>>
\* A timestamp column that is set.
Stamp(t) == <<t>>

RECEIVED == "received"
PROCESSING == "processing"
ENRICHED == "enriched"
SOLUTION_PROPOSED == "solution_proposed"
RESOLVED == "resolved"
FAILED == "failed"

AlertStatus == {RECEIVED, PROCESSING, ENRICHED, SOLUTION_PROPOSED, RESOLVED, FAILED}

\* Inputs of the webhook: the values a payload field takes.  "7" is a numeric
\* event id, "x" one that int() rejects.
Payload(event_id, alert_id, id, eventType, date) ==
  [event_id |-> event_id, alert_id |-> alert_id, id |-> id,
   eventType |-> eventType, date |-> date]

Payloads ==
  { Payload("7", "a1", "i1", "", ""),
    Payload("x", "a1", "i1", "", ""),
    Payload("7", "a1", "", "", ""),
    Payload("", "a1", "i1", "", ""),
    Payload("7", "", "i1", "", "") }

\* int(event_id) succeeds on the numeric ids only.
IsNumeric(s) == s \in {"7"}

\* -------------------------------------------------------------- the store
\* Columns of the alerts table as _create_tables declares them.
AlertColumns ==
  {"alert_hash", "payload", "enriched_data", "status", "created_at",
   "updated_at", "processed_at", "retry_count", "error_message"}

\* json.dumps / json.loads of a payload or an enrichment document.
json_dumps(v) == <<"json", v>>
json_loads(s) == s[2]

\* Python truthiness of the optional enriched_data argument.
Truthy(v) == v # Null

\* The grace window of get_pending_alerts, in minutes.
GraceMinutes == 1
\* The default limit of get_pending_alerts.
DefaultLimit == 10

RowsOf(tbl, h) == {i \in 1..Len(tbl) : tbl[i].alert_hash = h}
HasRow(tbl, h) == RowsOf(tbl, h) # {}

\* Faulty variant: a failed check answers True.
is_alert_received_failing_open(tbl, alert_hash, ok) ==
  IF ~ok THEN TRUE
  ELSE IF "id" \notin AlertColumns THEN FALSE
  ELSE HasRow(tbl, alert_hash)

\* SELECT id FROM alerts WHERE alert_hash = $1: the statement names a column
\* the table does not have, so the backend rejects it and the except branch
\* answers False, as a timeout does.
is_alert_received(tbl, alert_hash, ok) ==
  IF ~ok THEN FALSE
  ELSE IF "id" \notin AlertColumns THEN FALSE
  ELSE HasRow(tbl, alert_hash)

NewRow(payload, alert_hash, now) ==
  [alert_hash |-> alert_hash, payload |-> json_dumps(payload),
   enriched_data |-> Null, status |-> RECEIVED, created_at |-> now,
   updated_at |-> now, processed_at |-> Null, retry_count |-> 0,
   error_message |-> None]

\* Faulty variant: a plain INSERT, whose primary-key conflict is raised.
save_alert_plain_insert(tbl, payload, alert_hash, now, ok) ==
  IF ~ok THEN [table |-> tbl, raised |-> TRUE]
  ELSE IF HasRow(tbl, alert_hash) THEN [table |-> tbl, raised |-> TRUE]
  ELSE [table |-> Append(tbl, NewRow(payload, alert_hash, now)), raised |-> FALSE]

\* Faulty variant: an upsert, ON CONFLICT (alert_hash) DO UPDATE, which
\* stores the row afresh.
save_alert_upsert(tbl, payload, alert_hash, now, ok) ==
  IF ~ok THEN [table |-> tbl, raised |-> TRUE]
  ELSE IF HasRow(tbl, alert_hash)
  THEN [table |-> [i \in 1..Len(tbl) |->
                     IF tbl[i].alert_hash = alert_hash
                     THEN NewRow(payload, alert_hash, now) ELSE tbl[i]],
        raised |-> FALSE]
  ELSE [table |-> Append(tbl, NewRow(payload, alert_hash, now)), raised |-> FALSE]

\* Faulty variant: ON CONFLICT (alert_hash) DO UPDATE SET payload =
\* EXCLUDED.payload, which keeps the row but takes the new payload.
save_alert_replacing_payload(tbl, payload, alert_hash, now, ok) ==
  IF ~ok THEN [table |-> tbl, raised |-> TRUE]
  ELSE IF HasRow(tbl, alert_hash)
  THEN [table |-> [i \in 1..Len(tbl) |->
                     IF tbl[i].alert_hash = alert_hash
                     THEN [tbl[i] EXCEPT !.payload = json_dumps(payload)] ELSE tbl[i]],
        raised |-> FALSE]
  ELSE [table |-> Append(tbl, NewRow(payload, alert_hash, now)), raised |-> FALSE]

\* Faulty variant: a backend failure is logged and not raised again.
save_alert_swallowing(tbl, payload, alert_hash, now, ok) ==
  IF ~ok THEN [table |-> tbl, raised |-> FALSE]
  ELSE IF HasRow(tbl, alert_hash) THEN [table |-> tbl, raised |-> FALSE]
  ELSE [table |-> Append(tbl, NewRow(payload, alert_hash, now)), raised |-> FALSE]

\* INSERT ... ON CONFLICT (alert_hash) DO NOTHING; a backend failure is
\* logged and raised again.
save_alert(tbl, payload, alert_hash, now, ok) ==
  IF ~ok THEN [table |-> tbl, raised |-> TRUE]
  ELSE IF HasRow(tbl, alert_hash) THEN [table |-> tbl, raised |-> FALSE]
  ELSE [table |-> Append(tbl, NewRow(payload, alert_hash, now)), raised |-> FALSE]

\* Faulty variant: retry_count is incremented by a RESOLVED write as well.
UpdatedRow_counting_resolved(row, status, error_message, enriched_data, now) ==
  IF status = RESOLVED
  THEN [row EXCEPT !.status = status, !.updated_at = now, !.processed_at = Stamp(now),
                   !.enriched_data = IF Truthy(enriched_data)
                                     THEN json_dumps(enriched_data) ELSE @,
                   !.retry_count = @ + 1]
  ELSE [row EXCEPT !.status = status, !.updated_at = now,
                   !.enriched_data = IF Truthy(enriched_data)
                                     THEN json_dumps(enriched_data) ELSE @,
                   !.error_message = error_message,
                   !.retry_count = @ + 1]

\* Faulty variant: processed_at is stamped by a FAILED write as well.
UpdatedRow_stamping_failed(row, status, error_message, enriched_data, now) ==
  IF status = RESOLVED
  THEN [row EXCEPT !.status = status, !.updated_at = now, !.processed_at = Stamp(now),
                   !.enriched_data = IF Truthy(enriched_data)
                                     THEN json_dumps(enriched_data) ELSE @]
  ELSE [row EXCEPT !.status = status, !.updated_at = now,
                   !.processed_at = IF status = FAILED THEN Stamp(now) ELSE @,
                   !.enriched_data = IF Truthy(enriched_data)
                                     THEN json_dumps(enriched_data) ELSE @,
                   !.error_message = error_message,
                   !.retry_count = @ + 1]

\* Faulty variant: a write without enriched_data sets the column to NULL.
UpdatedRow_clearing_enrichment(row, status, error_message, enriched_data, now) ==
  IF status = RESOLVED
  THEN [row EXCEPT !.status = status, !.updated_at = now, !.processed_at = Stamp(now),
                   !.enriched_data = IF Truthy(enriched_data)
                                     THEN json_dumps(enriched_data) ELSE Null]
  ELSE [row EXCEPT !.status = status, !.updated_at = now,
                   !.enriched_data = IF Truthy(enriched_data)
                                     THEN json_dumps(enriched_data) ELSE Null,
                   !.error_message = error_message,
                   !.retry_count = @ + 1]

\* The SET lists of the four UPDATE statements of update_alert_status.
UpdatedRow(row, status, error_message, enriched_data, now) ==
  IF status = RESOLVED
  THEN IF Truthy(enriched_data)
       THEN [row EXCEPT !.status = status, !.updated_at = now, !.processed_at = Stamp(now),
                        !.enriched_data = json_dumps(enriched_data)]
       ELSE [row EXCEPT !.status = status, !.updated_at = now, !.processed_at = Stamp(now)]
  ELSE IF Truthy(enriched_data)
       THEN [row EXCEPT !.status = status, !.updated_at = now,
                        !.enriched_data = json_dumps(enriched_data),
                        !.error_message = error_message,
                        !.retry_count = @ + 1]
       ELSE [row EXCEPT !.status = status, !.updated_at = now,
                        !.error_message = error_message,
                        !.retry_count = @ + 1]

\* One UPDATE ... WHERE alert_hash = $n; every failure is logged and
\* swallowed, leaving the table as it was.
update_alert_status(tbl, alert_hash, status, error_message, enriched_data, now, ok) ==
  IF ~ok THEN tbl
  ELSE [i \in 1..Len(tbl) |->
          IF tbl[i].alert_hash = alert_hash
          THEN UpdatedRow(tbl[i], status, error_message, enriched_data, now)
          ELSE tbl[i]]

\* Faulty variant: the except branch raises the failure again.
update_alert_status_reraising(ok) == ~ok

\* Whether update_alert_status raises to its caller: its except branch logs
\* the failure and returns.
update_alert_status_raises(ok) == FALSE

Min(a, b) == IF a <= b THEN a ELSE b

\* Faulty variant: WHERE status <> 'resolved' in place of status = 'received'.
PendingRows_unresolved(tbl, now) ==
  {i \in 1..Len(tbl) :
     tbl[i].status # RESOLVED /\ tbl[i].created_at + GraceMinutes < now}

\* Faulty variant: WHERE status IN ('received', 'processing').
PendingRows_with_processing(tbl, now) ==
  {i \in 1..Len(tbl) :
     tbl[i].status \in {RECEIVED, PROCESSING} /\ tbl[i].created_at + GraceMinutes < now}

\* Faulty variant: the grace window is left out of the WHERE clause.
PendingRows_without_grace(tbl, now) ==
  {i \in 1..Len(tbl) : tbl[i].status = RECEIVED}

\* Rows in RECEIVED created more than the grace window ago.
PendingRows(tbl, now) ==
  {i \in 1..Len(tbl) :
     tbl[i].status = RECEIVED /\ tbl[i].created_at + GraceMinutes < now}

\* The selections ORDER BY created_at ASC LIMIT $2 may return: the oldest
\* rows first, rows of equal created_at in either order.
PendingSelections(tbl, limit, now) ==
  LET E == PendingRows(tbl, now)
      n == Min(limit, Cardinality(E))
  IN {s \in [1..n -> E] :
        /\ \A a, b \in 1..n : a < b =>
              /\ s[a] # s[b]
              /\ tbl[s[a]].created_at <= tbl[s[b]].created_at
        /\ \A j \in E \ {s[a] : a \in 1..n} :
              \A a \in 1..n : tbl[s[a]].created_at <= tbl[j].created_at}

\* The lists get_pending_alerts may return; [] on any failure.
get_pending_alerts(tbl, limit, now, ok) ==
  IF ~ok THEN {<<>>}
  ELSE {[a \in 1..Len(s) |->
           [alert_hash |-> tbl[s[a]].alert_hash,
            payload |-> json_loads(tbl[s[a]].payload)]] :
        s \in PendingSelections(tbl, limit, now)}

\* Whether get_pending_alerts raises to its caller: its except branch logs
\* the failure and returns [].
get_pending_alerts_raises(ok) == FALSE

\* The LIMIT of the recent alerts of get_alert_statistics.
RecentLimit == 10

\* alert_hash[:8], kept apart from the hash it is cut from.
Hash8(h) == <<"[:8]", h>>

\* The selections ORDER BY created_at DESC LIMIT 10 may return.
RecentSelections(tbl) ==
  LET n == Min(RecentLimit, Len(tbl))
  IN {s \in [1..n -> 1..Len(tbl)] :
        /\ \A a, b \in 1..n : a < b =>
              /\ s[a] # s[b]
              /\ tbl[s[a]].created_at >= tbl[s[b]].created_at
        /\ \A j \in (1..Len(tbl)) \ {s[a] : a \in 1..n} :
              \A a \in 1..n : tbl[s[a]].created_at >= tbl[j].created_at}

\* The documents get_alert_statistics may return: the number of rows of each
\* status present and the newest rows; the empty statistics on any failure.
get_alert_statistics(tbl, ok) ==
  IF ~ok THEN {[alert_counts |-> <<>>, recent_alerts |-> <<>>]}
  ELSE {[alert_counts |->
           [st \in {tbl[i].status : i \in 1..Len(tbl)} |->
              Cardinality({i \in 1..Len(tbl) : tbl[i].status = st})],
         recent_alerts |->
           [a \in 1..Len(s) |->
              [hash |-> Hash8(tbl[s[a]].alert_hash), status |-> tbl[s[a]].status,
               created |-> tbl[s[a]].created_at, updated |-> tbl[s[a]].updated_at]]] :
        s \in RecentSelections(tbl)}

\* The DELETE of cleanup_old_alerts has the placeholders $1 and $2 (its $3
\* stands inside the quoted interval literal) and is executed with three
\* arguments: the backend rejects the statement and the except branch
\* answers 0.
CleanupPlaceholders == 2
CleanupArguments == 3
MinutesPerDay == 1440

cleanup_old_alerts(tbl, days, now, ok) ==
  IF ~ok THEN [table |-> tbl, deleted |-> 0]
  ELSE IF CleanupPlaceholders # CleanupArguments THEN [table |-> tbl, deleted |-> 0]
  ELSE LET gone == {i \in 1..Len(tbl) :
                      /\ tbl[i].status \in {RESOLVED, FAILED}
                      /\ tbl[i].updated_at + days * MinutesPerDay < now}
       IN [table |-> SelectSeq(tbl, LAMBDA r :
                        ~(r.status \in {RESOLVED, FAILED}
                          /\ r.updated_at + days * MinutesPerDay < now)),
           deleted |-> Cardinality(gone)]

\* ------------------------------------------------------------- the ingress
\* Faulty variant: only the event identifier is required.
_validate_payload_event_only(payload) == payload.event_id # ""

\* _validate_payload raises ValueError unless both identifiers are truthy.
_validate_payload(payload) == payload.event_id # "" /\ payload.alert_id # ""

\* hashlib.md5 as a collision-free digest of the formatted string.
md5(s) == <<"md5", s>>

_generate_alert_hash(payload) ==
  md5(payload.id \o "-" \o payload.eventType \o "-" \o payload.date)

Hashes == {_generate_alert_hash(p) : p \in Payloads}

\* ------------------------------------------------- the monitoring API
\* A tag "key:value" as the pair of its parts around the first colon.
Tag(k, v) == [key |-> k, value |-> v]

TagLists ==
  { <<>>,
    <<Tag("env", "prod")>>,
    <<Tag("pod_name", "p1")>>,
    <<Tag("pod_name", "")>>,
    <<Tag("kube_namespace", "n1"), Tag("pod_name", "p1"), Tag("kube_deployment", "d1")>> }

\* What the events API does with one call: a provider or transport error,
\* a not-found, or the event with its tags.
DatadogReplies ==
  {[kind |-> "error", tags |-> <<>>], [kind |-> "notfound", tags |-> <<>>]}
    \cup {[kind |-> "event", tags |-> t] : t \in TagLists}

\* get_runtime_event: NotFoundException becomes a placeholder event with no
\* tags, every other exception propagates.
get_runtime_event(event_id, reply) ==
  IF reply.kind = "error" THEN [raised |-> TRUE, details |-> Null]
  ELSE IF reply.kind = "notfound"
  THEN [raised |-> FALSE,
        details |-> [event_id |-> event_id, title |-> "Event not found", tags |-> <<>>]]
  ELSE [raised |-> FALSE,
        details |-> [event_id |-> event_id, title |-> "title", tags |-> reply.tags]]

RECURSIVE ExtractFrom(_, _, _)
ExtractFrom(tags, i, acc) ==
  IF i > Len(tags) THEN acc
  ELSE LET tag == tags[i]
       IN ExtractFrom(tags, i + 1,
            IF tag.key = "pod_name" THEN [acc EXCEPT !.pod_name = tag.value]
            ELSE IF tag.key = "kube_namespace" THEN [acc EXCEPT !.namespace = tag.value]
            ELSE IF tag.key = "kube_deployment" THEN [acc EXCEPT !.deployment = tag.value]
            ELSE acc)

\* Faulty variant: a pod name is made up when no tag carries one.
_extract_k8s_info_from_tags_default_pod(tags) ==
  LET info == ExtractFrom(tags, 1, [pod_name |-> None, namespace |-> None, deployment |-> None])
  IN IF info.pod_name = None THEN [info EXCEPT !.pod_name = "unknown"] ELSE info

\* The loop of _extract_k8s_info_from_tags from its initial None values.
_extract_k8s_info_from_tags(tags) ==
  ExtractFrom(tags, 1, [pod_name |-> None, namespace |-> None, deployment |-> None])

\* Python truthiness of an optional string.
TruthyStr(s) == s # None /\ s # ""

\* ------------------------------------------------- the cluster discovery
\* A cluster, as the discovery reads it: whether a configuration can be
\* loaded, the namespaces, pods, replica sets, deployments and events in the
\* order the API lists them, and the reads that fail.  A fault names a read
\* and a namespace ("*" for all) and is an API error with a status other than
\* 404 ("api") or an exception of the transport, which is not an
\* ApiException ("transport").
Cluster(config, namespaces, pods, replica_sets, deployments, events, faults) ==
  [config |-> config, namespaces |-> namespaces, pods |-> pods,
   replica_sets |-> replica_sets, deployments |-> deployments,
   events |-> events, faults |-> faults]

Fault(op, namespace, kind) == [op |-> op, namespace |-> namespace, kind |-> kind]

\* How a read ends before it is answered: "none" when it is answered.
FaultOf(c, op, namespace) ==
  LET hit == {f \in c.faults : f.op = op /\ f.namespace \in {namespace, "*"}}
  IN IF \E f \in hit : f.kind = "transport" THEN "transport"
     ELSE IF hit # {} THEN "api"
     ELSE "none"

\* The result of a read: exc is "none", "api404" (ApiException, status 404),
\* "api" (ApiException, another status) or "other" (any other exception).
Returned(value) == [exc |-> "none", value |-> value]
Raised(exc) == [exc |-> exc, value |-> Null]
Failed(fault) == Raised(IF fault = "transport" THEN "other" ELSE "api")

IsApiException(exc) == exc \in {"api404", "api"}

Indices(seq, Test(_)) == {i \in 1..Len(seq) : Test(seq[i])}
First(seq, Test(_)) == seq[CHOOSE i \in Indices(seq, Test) :
                             \A j \in Indices(seq, Test) : i <= j]

\* v1.list_namespace(): the names, in listing order.
list_namespace(c) ==
  IF FaultOf(c, "list_namespace", "*") # "none"
  THEN Failed(FaultOf(c, "list_namespace", "*"))
  ELSE Returned(c.namespaces)

\* v1.read_namespaced_pod(name, namespace)
read_namespaced_pod(c, name, namespace) ==
  LET Is(p) == p.name = name /\ p.namespace = namespace
  IN IF FaultOf(c, "read_namespaced_pod", namespace) # "none"
     THEN Failed(FaultOf(c, "read_namespaced_pod", namespace))
     ELSE IF Indices(c.pods, Is) = {} THEN Raised("api404")
     ELSE Returned(First(c.pods, Is))

\* v1.list_namespaced_pod(namespace)
list_namespaced_pod(c, namespace) ==
  IF FaultOf(c, "list_namespaced_pod", namespace) # "none"
  THEN Failed(FaultOf(c, "list_namespaced_pod", namespace))
  ELSE Returned(SelectSeq(c.pods, LAMBDA p : p.namespace = namespace))

\* apps_v1.read_namespaced_replica_set(name, namespace)
read_namespaced_replica_set(c, name, namespace) ==
  LET Is(rs) == rs.name = name /\ rs.namespace = namespace
  IN IF FaultOf(c, "read_namespaced_replica_set", namespace) # "none"
     THEN Failed(FaultOf(c, "read_namespaced_replica_set", namespace))
     ELSE IF Indices(c.replica_sets, Is) = {} THEN Raised("api404")
     ELSE Returned(First(c.replica_sets, Is))

\* apps_v1.read_namespaced_deployment(name, namespace)
read_namespaced_deployment(c, name, namespace) ==
  LET Is(d) == d.name = name /\ d.namespace = namespace
  IN IF FaultOf(c, "read_namespaced_deployment", namespace) # "none"
     THEN Failed(FaultOf(c, "read_namespaced_deployment", namespace))
     ELSE IF Indices(c.deployments, Is) = {} THEN Raised("api404")
     ELSE Returned(First(c.deployments, Is))

\* v1.list_namespaced_event(namespace, field_selector="involvedObject.name=...")
list_namespaced_event(c, namespace, involved) ==
  IF FaultOf(c, "list_namespaced_event", namespace) # "none"
  THEN Failed(FaultOf(c, "list_namespaced_event", namespace))
  ELSE Returned(SelectSeq(c.events,
                  LAMBDA e : e.namespace = namespace /\ e.involved = involved))

\* The empty dict {}.
EmptyDict == <<>>

Range(seq) == {seq[i] : i \in 1..Len(seq)}

RECURSIVE SumRestarts(_, _)
SumRestarts(statuses, i) ==
  IF i > Len(statuses) THEN 0
  ELSE statuses[i].restart_count + SumRestarts(statuses, i + 1)

\* _format_pod_info: the pod part of a context.
_format_pod_info(pod, discovered) ==
  LET result ==
        [name |-> pod.name, namespace |-> pod.namespace, status |-> pod.phase,
         restarts |-> SumRestarts(pod.container_statuses, 1),
         container_statuses |->
           [i \in 1..Len(pod.container_statuses) |->
              LET cs == pod.container_statuses[i]
              IN [name |-> cs.name, ready |-> cs.ready,
                  restart_count |-> cs.restart_count,
                  last_state |-> IF cs.terminated # None
                                 THEN "Terminated(" \o cs.terminated \o ")"
                                 ELSE "None"]]]
  IN IF discovered
     THEN [discovery_method |-> "automatic_cluster_search"] @@ result
     ELSE result

\* _get_deployment_context: {} on an ApiException, any other exception
\* propagates.  A ready_replicas of None is the number 0 here.
_get_deployment_context(c, namespace, deployment_name) ==
  LET r == read_namespaced_deployment(c, deployment_name, namespace)
  IN IF r.exc = "none"
     THEN Returned([name |-> r.value.name, replicas |-> r.value.replicas,
                    ready_replicas |-> r.value.ready_replicas,
                    resources |-> r.value.resources])
     ELSE IF IsApiException(r.exc) THEN Returned(EmptyDict)
     ELSE Raised(r.exc)

\* _get_pod_events: [] on an ApiException, any other exception propagates.
_get_pod_events(c, namespace, pod_name) ==
  LET r == list_namespaced_event(c, namespace, pod_name)
  IN IF r.exc = "none"
     THEN Returned([i \in 1..Len(r.value) |->
                      [type |-> r.value[i].type, reason |-> r.value[i].reason,
                       message |-> r.value[i].message]])
     ELSE IF IsApiException(r.exc) THEN Returned(<<>>)
     ELSE Raised(r.exc)

\* Faulty variant: the label keys in the opposite order.
deployment_labels_last_first == <<"k8s-app", "app", "app.kubernetes.io/name">>

\* The label keys _discover_deployment_from_pod tries, in its order.
deployment_labels == <<"app.kubernetes.io/name", "app", "k8s-app">>

\* The name of the first owner of kind Deployment of a replica set, or None.
DeploymentOwner(rs) ==
  LET Is(o) == o.kind = "Deployment"
  IN IF Indices(rs.owner_references, Is) = {} THEN None
     ELSE First(rs.owner_references, Is).name

\* Method 1 of _discover_deployment_from_pod from the i-th owner of the pod
\* on: raised when a read ends with an exception that is not an ApiException.
RECURSIVE OwnerLoop(_, _, _)
OwnerLoop(c, pod, i) ==
  IF i > Len(pod.owner_references) THEN [raised |-> FALSE, name |-> None]
  ELSE IF pod.owner_references[i].kind # "ReplicaSet" THEN OwnerLoop(c, pod, i + 1)
  ELSE LET r == read_namespaced_replica_set(c, pod.owner_references[i].name,
                                            pod.namespace)
       IN IF r.exc = "other" THEN [raised |-> TRUE, name |-> None]
          ELSE IF IsApiException(r.exc) THEN OwnerLoop(c, pod, i + 1)
          ELSE IF DeploymentOwner(r.value) # None
          THEN [raised |-> FALSE, name |-> DeploymentOwner(r.value)]
          ELSE OwnerLoop(c, pod, i + 1)

\* Method 2 of _discover_deployment_from_pod from the i-th label key on.
RECURSIVE LabelLoop(_, _, _)
LabelLoop(c, pod, i) ==
  IF i > Len(deployment_labels) THEN [raised |-> FALSE, name |-> None]
  ELSE IF deployment_labels[i] \notin DOMAIN pod.labels THEN LabelLoop(c, pod, i + 1)
  ELSE LET app_name == pod.labels[deployment_labels[i]]
           r == read_namespaced_deployment(c, app_name, pod.namespace)
       IN IF r.exc = "other" THEN [raised |-> TRUE, name |-> None]
          ELSE IF IsApiException(r.exc) THEN LabelLoop(c, pod, i + 1)
          ELSE [raised |-> FALSE, name |-> app_name]

\* Faulty variant: the labels are tried before the owner references.
_discover_deployment_from_pod_labels_first(c, pod) ==
  LET byLabel == LabelLoop(c, pod, 1)
  IN IF byLabel.raised THEN None
     ELSE IF byLabel.name # None THEN byLabel.name
     ELSE LET byOwner == OwnerLoop(c, pod, 1)
          IN IF byOwner.raised THEN None ELSE byOwner.name

\* Faulty variant: the value of the first label key present is returned
\* without reading the deployment it names.
_discover_deployment_from_pod_trusting_labels(c, pod) ==
  LET byOwner == OwnerLoop(c, pod, 1)
      present == SelectSeq(deployment_labels, LAMBDA key : key \in DOMAIN pod.labels)
  IN IF byOwner.raised THEN None
     ELSE IF byOwner.name # None THEN byOwner.name
     ELSE IF present # <<>> THEN pod.labels[present[1]]
     ELSE None

\* _discover_deployment_from_pod: the owner references first, then the
\* labels; None when neither resolves a deployment or when an exception that
\* is not an ApiException reaches the outer except branch.
_discover_deployment_from_pod(c, pod) ==
  LET byOwner == OwnerLoop(c, pod, 1)
  IN IF byOwner.raised THEN None
     ELSE IF byOwner.name # None THEN byOwner.name
     ELSE LET byLabel == LabelLoop(c, pod, 1)
          IN IF byLabel.raised THEN None ELSE byLabel.name

\* pod_name in pod.metadata.name (substring), for the pod names of the model.
IsSubstring(sub, name) ==
  \/ sub = name
  \/ sub = "p1" /\ name \in {"p1-a", "p1-b"}

\* Faulty variant: the first pod of the listing whose name contains pod_name
\* is taken, whenever it was created.
_search_pod_by_pattern_first_listed(c, namespace, pod_name) ==
  LET r == list_namespaced_pod(c, namespace)
  IN IF r.exc # "none" THEN [error |-> "Pattern search failed"]
     ELSE LET matching_pods == SelectSeq(r.value, LAMBDA p : IsSubstring(pod_name, p.name))
          IN IF matching_pods # <<>>
             THEN [warning |-> "Exact pod not found, using similar: "
                                 \o matching_pods[1].name]
                    @@ _format_pod_info(matching_pods[1], FALSE)
             ELSE [error |-> "No pods matching pattern '" \o pod_name
                               \o "' found in " \o namespace]

\* _search_pod_by_pattern: the most recently created pod of the namespace
\* whose name contains pod_name (the first of them in listing order when
\* several are equally recent), with a warning; an error document when there
\* is none or when the listing fails.
_search_pod_by_pattern(c, namespace, pod_name) ==
  LET r == list_namespaced_pod(c, namespace)
  IN IF r.exc # "none" THEN [error |-> "Pattern search failed"]
     ELSE LET matching_pods == SelectSeq(r.value, LAMBDA p : IsSubstring(pod_name, p.name))
              Latest(p) == \A j \in 1..Len(matching_pods) :
                              matching_pods[j].creation_timestamp <= p.creation_timestamp
          IN IF matching_pods # <<>>
             THEN LET latest_pod == First(matching_pods, Latest)
                  IN [warning |-> "Exact pod not found, using similar: " \o latest_pod.name]
                       @@ _format_pod_info(latest_pod, FALSE)
             ELSE [error |-> "No pods matching pattern '" \o pod_name
                               \o "' found in " \o namespace]

\* _get_pod_context_with_fallback: the pod read directly, the pattern search
\* on a 404, an error document on another ApiException; any other exception
\* propagates.
_get_pod_context_with_fallback(c, namespace, pod_name) ==
  IF ~TruthyStr(pod_name) THEN Returned([error |-> "No pod name provided"])
  ELSE LET r == read_namespaced_pod(c, pod_name, namespace)
       IN IF r.exc = "none" THEN Returned(_format_pod_info(r.value, FALSE))
          ELSE IF r.exc = "api404"
          THEN Returned(_search_pod_by_pattern(c, namespace, pod_name))
          ELSE IF r.exc = "api" THEN Returned([error |-> "API error"])
          ELSE Raised(r.exc)

priority_namespaces == <<"default", "kube-system", "monitoring", "logging">>

\* search_order: the priority namespaces, then the listed ones that are not
\* among them, in listing order.
search_order(namespace_names) ==
  priority_namespaces
    \o SelectSeq(namespace_names, LAMBDA ns : ns \notin Range(priority_namespaces))

\* The result of _discover_pod_automatically when its outer except branch is
\* reached, with the discovery_info as far as it was filled.
DiscoveryFailed(discovery_info) ==
  [pod |-> [error |-> "Discovery failed"],
   deployment |-> [error |-> "Discovery failed"],
   events |-> <<>>,
   discovery_info |-> discovery_info]

\* The body of the search loop once the pod was read in namespace_name: the
\* deployment, the events and the context returned.  An exception of the
\* deployment or event read that is not an ApiException reaches the outer
\* except branch.
FoundInNamespace(c, pod, namespace_name, pod_name, discovery_info) ==
  LET deployment_name == _discover_deployment_from_pod(c, pod)
      info == IF TruthyStr(deployment_name)
              THEN [discovery_info EXCEPT !.found_namespace = namespace_name,
                                          !.found_deployment = deployment_name]
              ELSE [discovery_info EXCEPT !.found_namespace = namespace_name]
      deployment_context ==
        IF TruthyStr(deployment_name)
        THEN _get_deployment_context(c, namespace_name, deployment_name)
        ELSE Returned(EmptyDict)
      events == _get_pod_events(c, namespace_name, pod_name)
  IN IF deployment_context.exc # "none" THEN DiscoveryFailed(info)
     ELSE IF events.exc # "none" THEN DiscoveryFailed(info)
     ELSE [pod |-> _format_pod_info(pod, TRUE),
           deployment |-> deployment_context.value,
           events |-> events.value,
           discovery_info |-> info]

\* The for loop of _discover_pod_automatically from the i-th namespace of the
\* search order on.
RECURSIVE SearchLoop(_, _, _, _, _)
SearchLoop(c, pod_name, namespace_names, i, discovery_info) ==
  LET order == search_order(namespace_names)
  IN IF i > Len(order)
     THEN [pod |-> [error |-> "Pod " \o pod_name \o " not found in any namespace"],
           deployment |-> [error |-> "Cannot find deployment without valid pod"],
           events |-> <<>>,
           discovery_info |-> discovery_info]
     ELSE IF order[i] \notin Range(namespace_names)
     THEN SearchLoop(c, pod_name, namespace_names, i + 1, discovery_info)
     ELSE LET info == [discovery_info EXCEPT
                         !.searched_namespaces = Append(@, order[i])]
              r == read_namespaced_pod(c, pod_name, order[i])
          IN IF r.exc = "none"
             THEN FoundInNamespace(c, r.value, order[i], pod_name, info)
             ELSE IF IsApiException(r.exc)
             THEN SearchLoop(c, pod_name, namespace_names, i + 1, info)
             ELSE DiscoveryFailed(info)

\* Faulty variant: only the priority namespaces are searched.
_discover_pod_automatically_priority_only(c, pod_name) ==
  LET discovery_info == [search_strategy |-> "automatic_discovery",
                         searched_namespaces |-> <<>>,
                         found_namespace |-> None, found_deployment |-> None]
      all_namespaces == list_namespace(c)
  IN IF all_namespaces.exc # "none" THEN DiscoveryFailed(discovery_info)
     ELSE SearchLoop(c, pod_name,
                     SelectSeq(all_namespaces.value,
                               LAMBDA ns : ns \in Range(priority_namespaces)),
                     1, discovery_info)

\* _discover_pod_automatically: the pod searched in the namespaces of the
\* cluster; a failure to list the namespaces is a failed discovery.
_discover_pod_automatically(c, pod_name) ==
  LET discovery_info == [search_strategy |-> "automatic_discovery",
                         searched_namespaces |-> <<>>,
                         found_namespace |-> None, found_deployment |-> None]
      all_namespaces == list_namespace(c)
  IN IF all_namespaces.exc # "none" THEN DiscoveryFailed(discovery_info)
     ELSE SearchLoop(c, pod_name, all_namespaces.value, 1, discovery_info)

\* The deployment part of a context when the namespace is known, the pod was
\* identified and no deployment name was given: the pod is read again and its
\* deployment discovered; every exception becomes an error document.
DeploymentOfIdentifiedPod(c, pod_context) ==
  LET r == read_namespaced_pod(c, pod_context.name, pod_context.namespace)
  IN IF r.exc # "none" THEN [error |-> "Discovery failed"]
     ELSE LET discovered_deployment == _discover_deployment_from_pod(c, r.value)
          IN IF TruthyStr(discovered_deployment)
             THEN LET d == _get_deployment_context(c, pod_context.namespace,
                                                   discovered_deployment)
                  IN IF d.exc # "none" THEN [error |-> "Discovery failed"] ELSE d.value
             ELSE [error |-> "No deployment found for this pod"]

\* _sync_get_k8s_context: raised when no configuration can be loaded or when
\* an exception leaves one of the reads of the namespace-known branch.
_sync_get_k8s_context(c, namespace, pod_name, deployment_name) ==
  IF ~c.config THEN [raised |-> TRUE, context |-> Null]
  ELSE IF TruthyStr(pod_name) /\ ~TruthyStr(namespace)
  THEN [raised |-> FALSE, context |-> _discover_pod_automatically(c, pod_name)]
  ELSE LET ns == IF TruthyStr(namespace) THEN namespace ELSE "default"
           pod_context == _get_pod_context_with_fallback(c, ns, pod_name)
       IN IF pod_context.exc # "none" THEN [raised |-> TRUE, context |-> Null]
          ELSE IF pod_context.value # EmptyDict /\ "error" \notin DOMAIN pod_context.value
          THEN LET deployment ==
                     IF TruthyStr(deployment_name)
                     THEN _get_deployment_context(c, ns, deployment_name)
                     ELSE IF "name" \in DOMAIN pod_context.value
                     THEN Returned(DeploymentOfIdentifiedPod(c, pod_context.value))
                     ELSE Returned([error |-> "No deployment name provided"])
                   events == _get_pod_events(c, ns, pod_name)
               IN IF deployment.exc # "none" \/ events.exc # "none"
                  THEN [raised |-> TRUE, context |-> Null]
                  ELSE [raised |-> FALSE,
                        context |-> [pod |-> pod_context.value,
                                     deployment |-> deployment.value,
                                     events |-> events.value,
                                     discovery_info |-> EmptyDict]]
          ELSE [raised |-> FALSE,
                context |-> [pod |-> pod_context.value,
                             deployment |->
                               [error |-> "Cannot find deployment without valid pod"],
                             events |-> <<>>,
                             discovery_info |-> EmptyDict]]

\* get_k8s_context, which runs _sync_get_k8s_context in a thread and awaits
\* it, on the cluster c.
get_k8s_context(namespace, pod_name, deployment_name, c) ==
  _sync_get_k8s_context(c, namespace, pod_name, deployment_name)

PodFound(context) == "error" \notin DOMAIN context.pod

\* ------------------------------------ the discovery of src/context/k8s.py
\* The copy of the discovery in the package main.py imports get_k8s_context
\* from.  Its _get_pod_context_with_fallback, _search_pod_by_pattern,
\* _format_pod_info, _get_deployment_context and _get_pod_events are those
\* above, line for line; the definitions here are the ones that differ.

\* Method 1 of its _discover_deployment_from_pod: a bare except passes over
\* every exception of the replica-set read.
RECURSIVE context_OwnerLoop(_, _, _)
context_OwnerLoop(c, pod, i) ==
  IF i > Len(pod.owner_references) THEN None
  ELSE IF pod.owner_references[i].kind # "ReplicaSet" THEN context_OwnerLoop(c, pod, i + 1)
  ELSE LET r == read_namespaced_replica_set(c, pod.owner_references[i].name,
                                            pod.namespace)
       IN IF r.exc = "none" /\ DeploymentOwner(r.value) # None
          THEN DeploymentOwner(r.value)
          ELSE context_OwnerLoop(c, pod, i + 1)

\* Method 2: a bare except continues after every exception of the read.
RECURSIVE context_LabelLoop(_, _, _)
context_LabelLoop(c, pod, i) ==
  IF i > Len(deployment_labels) THEN None
  ELSE IF deployment_labels[i] \notin DOMAIN pod.labels
  THEN context_LabelLoop(c, pod, i + 1)
  ELSE IF read_namespaced_deployment(c, pod.labels[deployment_labels[i]],
                                     pod.namespace).exc = "none"
  THEN pod.labels[deployment_labels[i]]
  ELSE context_LabelLoop(c, pod, i + 1)

context_discover_deployment_from_pod(c, pod) ==
  IF context_OwnerLoop(c, pod, 1) # None THEN context_OwnerLoop(c, pod, 1)
  ELSE context_LabelLoop(c, pod, 1)

\* The result of its _discover_pod_automatically in the outer except branch.
context_DiscoveryFailed(discovery_info) ==
  [pod |-> [error |-> "Discovery failed"], deployment |-> EmptyDict,
   events |-> <<>>, discovery_info |-> discovery_info]

\* Its for loop from the i-th listed namespace on: the namespaces are read in
\* the order of the listing.
RECURSIVE context_SearchLoop(_, _, _, _, _)
context_SearchLoop(c, pod_name, namespace_names, i, discovery_info) ==
  IF i > Len(namespace_names)
  THEN [pod |-> [error |-> "Pod " \o pod_name \o " not found in any namespace"],
        deployment |-> EmptyDict, events |-> <<>>, discovery_info |-> discovery_info]
  ELSE LET namespace_name == namespace_names[i]
           searched == [discovery_info EXCEPT
                          !.searched_namespaces = Append(@, namespace_name)]
           r == read_namespaced_pod(c, pod_name, namespace_name)
           deployment_name == context_discover_deployment_from_pod(c, r.value)
           info == IF TruthyStr(deployment_name)
                   THEN [searched EXCEPT !.found_namespace = namespace_name,
                                         !.found_deployment = deployment_name]
                   ELSE [searched EXCEPT !.found_namespace = namespace_name]
           deployment == IF TruthyStr(deployment_name)
                         THEN _get_deployment_context(c, namespace_name, deployment_name)
                         ELSE Returned(EmptyDict)
           events == _get_pod_events(c, namespace_name, pod_name)
       IN IF r.exc = "none"
          THEN IF deployment.exc # "none" \/ events.exc # "none"
               THEN context_DiscoveryFailed(info)
               ELSE [pod |-> _format_pod_info(r.value, TRUE),
                     deployment |-> deployment.value, events |-> events.value,
                     discovery_info |-> info]
          ELSE IF IsApiException(r.exc)
          THEN context_SearchLoop(c, pod_name, namespace_names, i + 1, searched)
          ELSE context_DiscoveryFailed(searched)

context_discover_pod_automatically(c, pod_name) ==
  LET discovery_info == [search_strategy |-> "automatic_discovery",
                         searched_namespaces |-> <<>>,
                         found_namespace |-> None, found_deployment |-> None]
      namespaces == list_namespace(c)
  IN IF namespaces.exc # "none" THEN context_DiscoveryFailed(discovery_info)
     ELSE context_SearchLoop(c, pod_name, namespaces.value, 1, discovery_info)

\* Its get_k8s_context.  With a namespace it reads the pod, the deployment and
\* the events whatever the pod read gave; without a deployment name the
\* deployment read is called with name=None, which the client library rejects
\* with an ApiValueError, not an ApiException.
context_get_k8s_context(namespace, pod_name, deployment_name, c) ==
  IF ~c.config THEN [raised |-> TRUE, context |-> Null]
  ELSE IF TruthyStr(pod_name) /\ ~TruthyStr(namespace)
  THEN [raised |-> FALSE, context |-> context_discover_pod_automatically(c, pod_name)]
  ELSE LET ns == IF TruthyStr(namespace) THEN namespace ELSE "default"
           pod == _get_pod_context_with_fallback(c, ns, pod_name)
           deployment == IF deployment_name = None THEN Raised("other")
                         ELSE _get_deployment_context(c, ns, deployment_name)
           events == _get_pod_events(c, ns, pod_name)
       IN IF pod.exc # "none" \/ deployment.exc # "none" \/ events.exc # "none"
          THEN [raised |-> TRUE, context |-> Null]
          ELSE [raised |-> FALSE,
                context |-> [pod |-> pod.value, deployment |-> deployment.value,
                             events |-> events.value, discovery_info |-> EmptyDict]]

\* ------------------------------------------------------------ clusters
\* A running pod with one container that has restarted once.
Pod(name, namespace, creation_timestamp, owner_references, labels) ==
  [name |-> name, namespace |-> namespace,
   creation_timestamp |-> creation_timestamp, phase |-> "Running",
   container_statuses |->
     <<[name |-> "main", ready |-> TRUE, restart_count |-> 1, terminated |-> "Error"]>>,
   owner_references |-> owner_references, labels |-> labels]

Owner(kind, name) == [kind |-> kind, name |-> name]

ReplicaSet(name, namespace, owner_references) ==
  [name |-> name, namespace |-> namespace, owner_references |-> owner_references]

Deployment(name, namespace) ==
  [name |-> name, namespace |-> namespace, replicas |-> 2, ready_replicas |-> 1,
   resources |-> [requests |-> EmptyDict, limits |-> EmptyDict]]

Event(namespace, involved, reason) ==
  [namespace |-> namespace, involved |-> involved, type |-> "Warning",
   reason |-> reason, message |-> reason \o " " \o involved]

\* The clusters the worker's discoveries meet: none that can be reached, one
\* holding the pod p1 of deployment d1 in namespace n1, one not holding it.
K8sReplies ==
  { Cluster(FALSE, <<>>, <<>>, <<>>, <<>>, <<>>, {}),
    Cluster(TRUE, <<"default", "n1">>,
            <<Pod("p1", "n1", 1, <<Owner("ReplicaSet", "rs1")>>, <<>>)>>,
            <<ReplicaSet("rs1", "n1", <<Owner("Deployment", "d1")>>)>>,
            <<Deployment("d1", "n1")>>,
            <<Event("n1", "p1", "BackOff")>>, {}),
    Cluster(TRUE, <<"default", "n1">>, <<>>, <<>>, <<>>, <<>>, {}) }

\* The clusters a discovery that is called directly meets.  Those of the
\* namespace search: a listing of namespaces (no name twice, as the API lists
\* them), the pod p1 in any of the listed namespaces, owned there by replica
\* set rs-a of deployment web, and at most one failing read.
NamespaceListings ==
  { <<>>,
    <<"ops-x">>,
    <<"default", "ops-x">>,
    <<"default", "kube-system">>,
    <<"ops-x", "monitoring", "ops-y">>,
    <<"ops-y", "kube-system", "ops-x", "default">> }

FaultKinds == {"api", "transport"}

SearchFaults ==
  {{}} \cup
  {{Fault(op, "*", kind)} :
     op \in {"list_namespace", "list_namespaced_event", "read_namespaced_deployment",
             "read_namespaced_replica_set"},
     kind \in FaultKinds} \cup
  {{Fault("read_namespaced_pod", namespace, kind)} :
     namespace \in {"default", "ops-x", "ops-y"}, kind \in FaultKinds}

\* One object per namespace of the listing that is in the set holding.
InEach(listing, holding, Object(_)) ==
  LET kept == SelectSeq(listing, LAMBDA ns : ns \in holding)
  IN [i \in 1..Len(kept) |-> Object(kept[i])]

SearchClusters ==
  { Cluster(TRUE, listing,
            InEach(listing, holding,
                   LAMBDA ns : Pod("p1", ns, 1, <<Owner("ReplicaSet", "rs-a")>>, <<>>)),
            InEach(listing, holding,
                   LAMBDA ns : ReplicaSet("rs-a", ns, <<Owner("Deployment", "web")>>)),
            InEach(listing, holding, LAMBDA ns : Deployment("web", ns)),
            InEach(listing, holding, LAMBDA ns : Event(ns, "p1", "BackOff")),
            faults) :
      listing \in NamespaceListings, holding \in SUBSET {"default", "kube-system",
                                                          "monitoring", "ops-x", "ops-y"},
      faults \in SearchFaults }

\* Those of the deployment resolution: the pod p1 in namespace ops-x with
\* some owners and labels, the replica set rs-a with some owners, some of the
\* deployments web and api, and at most one failing read.
PodOwners ==
  { <<>>,
    <<Owner("ReplicaSet", "rs-a")>>,
    <<Owner("Job", "j"), Owner("ReplicaSet", "rs-a")>>,
    <<Owner("ReplicaSet", "rs-gone"), Owner("ReplicaSet", "rs-a")>> }

ReplicaSetOwners ==
  { <<>>,
    <<Owner("Deployment", "web")>>,
    <<Owner("Rollout", "x"), Owner("Deployment", "web")>> }

LabelValues == {"api", "ghost"}

\* The label sets over the keys of deployment_labels.
PodLabels ==
  UNION {[keys -> LabelValues] : keys \in SUBSET Range(deployment_labels)}

ResolutionFaults ==
  {{}} \cup
  {{Fault(op, "*", kind)} :
     op \in {"read_namespaced_deployment", "read_namespaced_replica_set"},
     kind \in FaultKinds}

ResolutionClusters ==
  { Cluster(TRUE, <<"default", "ops-x">>,
            <<Pod("p1", "ops-x", 1, owners, labels)>>,
            <<ReplicaSet("rs-a", "ops-x", rs_owners)>>,
            InEach(<<"web", "api">>, existing, LAMBDA d : Deployment(d, "ops-x")),
            <<Event("ops-x", "p1", "BackOff")>>,
            faults) :
      owners \in PodOwners, labels \in PodLabels, rs_owners \in ReplicaSetOwners,
      existing \in SUBSET {"web", "api"}, faults \in ResolutionFaults }

\* Those of the label matching: the pod p1 in namespace ops-x, owned by
\* nothing or by the replica set rs-a that no deployment owns, every
\* assignment of web, api and ghost to some of the keys of deployment_labels,
\* and some of the deployments web and api.
LabelClusters ==
  { Cluster(TRUE, <<"default", "ops-x">>,
            <<Pod("p1", "ops-x", 1, owners, labels)>>,
            <<ReplicaSet("rs-a", "ops-x", <<>>)>>,
            InEach(<<"web", "api">>, existing, LAMBDA d : Deployment(d, "ops-x")),
            <<Event("ops-x", "p1", "BackOff")>>,
            {}) :
      owners \in {<<>>, <<Owner("ReplicaSet", "rs-a")>>},
      labels \in UNION {[keys -> {"web", "api", "ghost"}] :
                         keys \in SUBSET Range(deployment_labels)},
      existing \in SUBSET {"web", "api"} }

\* Those of the pattern search: namespace ops-x lists up to MaxPods pods out
\* of p1, p1-a, p1-b and q2 in some order, each created at time 1 or 2 and
\* owned by replica set rs-a of deployment web, with one event for each pod
\* that exists, and at most one failing read.
MaxPods == 3

PatternNames == {"p1", "p1-a", "p1-b", "q2"}

PatternListings ==
  { pods \in UNION {[1..n -> PatternNames \X (1..2)] : n \in 0..MaxPods} :
      \A i, j \in 1..Len(pods) : i # j => pods[i][1] # pods[j][1] }

PatternFaults ==
  {{}} \cup
  {{Fault(op, "*", kind)} :
     op \in {"list_namespaced_pod", "list_namespaced_event"}, kind \in FaultKinds}

PatternClusters ==
  { Cluster(TRUE, <<"default", "ops-x">>,
            [i \in 1..Len(pods) |->
               Pod(pods[i][1], "ops-x", pods[i][2],
                   <<Owner("ReplicaSet", "rs-a")>>, <<>>)],
            <<ReplicaSet("rs-a", "ops-x", <<Owner("Deployment", "web")>>)>>,
            <<Deployment("web", "ops-x")>>,
            [i \in 1..Len(pods) |-> Event("ops-x", pods[i][1], "BackOff")],
            faults) :
      pods \in PatternListings, faults \in PatternFaults }

Clusters ==
  {Cluster(FALSE, <<>>, <<>>, <<>>, <<>>, <<>>, {})}
    \cup SearchClusters \cup ResolutionClusters \cup LabelClusters
    \cup PatternClusters

\* ------------------------------------------------- the response parser
\* Text, as solution_generator.py reads it: a sequence of tokens.  A token is
\* a word (a maximal run of characters that are not white space), the
\* newline NL, or Indent, white space at the start of a line; two words next
\* to each other are separated by one space.  What the code asks of the
\* characters of a word -- its lower case, the strings it contains, starts
\* or ends with -- is tabulated for the words of the model.
NL == "\n"
Indent == "  "
\* A code fence, three backquotes in the text.
Fence == "[fence]"
IsSpace(token) == token \in {NL, Indent}

\* str.lower() on the words of the model.
LowerWord(w) ==
  CASE w = "Kubectl" -> "kubectl"
    [] w = "Delete" -> "delete"
    [] w = "DROP" -> "drop"
    [] w = "Run" -> "run"
    [] w = "URGENT" -> "urgent"
    [] w = "Cosmetic" -> "cosmetic"
    [] w = "**ANALYSIS**" -> "**analysis**"
    [] w = "**Analysis**:" -> "**analysis**:"
    [] w = "ANALYSIS:" -> "analysis:"
    [] w = "Analyse" -> "analyse"
    [] w = "**ROOT" -> "**root"
    [] w = "CAUSE**" -> "cause**"
    [] w = "ROOT" -> "root"
    [] w = "CAUSE:" -> "cause:"
    [] w = "Cause" -> "cause"
    [] w = "**SOLUTION**:" -> "**solution**:"
    [] w = "SOLUTION" -> "solution"
    [] w = "Solution:" -> "solution:"
    [] w = "**PREVENTION**" -> "**prevention**"
    [] w = "Prévention:" -> "prévention:"
    [] w = "Cause**racine" -> "cause**racine"
    [] w = "Estimated" -> "estimated"
    [] w = "Minutes" -> "minutes"
    [] OTHER -> w

\* The pairs <<sub, word>> of the model with sub in word, sub # word.
ProperInfixes ==
  {<<"rm", "confirm">>, <<"rm", "information">>, <<"rm", "format">>,
   <<"delete", "undelete">>, <<"format", "information">>,
   <<"if=", "if=/dev/zero">>, <<"kubectl", "mykubectl">>,
   <<"kubectl", "kubectl-ctx">>, <<"#", "#note">>,
   <<"[fence]", "[fence]bash">>, <<"[fence]", "[fence]sh">>,
   <<"[fence]", "[fence]shell">>, <<"[fence]", "[fence]python">>,
   <<"[fence]sh", "[fence]shell">>, <<"down", "downtime">>,
   <<"analysis", "**analysis**">>, <<"analysis", "**analysis**:">>,
   <<"analysis", "analysis:">>, <<"root", "**root">>, <<"cause", "cause**">>,
   <<"cause", "cause:">>, <<"cause", "cause**racine">>,
   <<"racine", "Cause**racine">>, <<"racine", "cause**racine">>,
   <<"solution", "resolution">>, <<"solution", "**solution**:">>,
   <<"solution", "solution:">>, <<"prevention", "**prevention**">>,
   <<"prévention", "prévention:">>, <<"**analysis**", "**analysis**:">>,
   <<"cause**", "cause**racine">>, <<"**solution**", "**solution**:">>,
   <<"estimate", "estimated">>, <<"time", "downtime">>, <<"time", "time:">>,
   <<"**", "**ANALYSIS**">>, <<"**", "**Analysis**:">>, <<"**", "**ROOT">>,
   <<"**", "CAUSE**">>, <<"**", "**SOLUTION**:">>, <<"**", "**PREVENTION**">>,
   <<"**", "Cause**racine">>, <<"**", "**analysis**">>,
   <<"**", "**analysis**:">>, <<"**", "**root">>, <<"**", "cause**">>,
   <<"**", "**solution**:">>, <<"**", "**prevention**">>,
   <<"**", "cause**racine">>}

\* The pairs with word.startswith(sub), sub # word.
ProperPrefixes ==
  {<<"if=", "if=/dev/zero">>, <<"kubectl", "kubectl-ctx">>, <<"#", "#note">>,
   <<"[fence]", "[fence]bash">>, <<"[fence]", "[fence]sh">>,
   <<"[fence]", "[fence]shell">>, <<"[fence]", "[fence]python">>,
   <<"[fence]sh", "[fence]shell">>, <<"down", "downtime">>,
   <<"analysis", "analysis:">>, <<"cause", "cause**">>, <<"cause", "cause:">>,
   <<"cause", "cause**racine">>, <<"solution", "solution:">>,
   <<"prévention", "prévention:">>, <<"**analysis**", "**analysis**:">>,
   <<"cause**", "cause**racine">>, <<"**solution**", "**solution**:">>,
   <<"estimate", "estimated">>, <<"time", "time:">>, <<"**", "**ANALYSIS**">>,
   <<"**", "**Analysis**:">>, <<"**", "**ROOT">>, <<"**", "**SOLUTION**:">>,
   <<"**", "**PREVENTION**">>, <<"**", "**analysis**">>,
   <<"**", "**analysis**:">>, <<"**", "**root">>, <<"**", "**solution**:">>,
   <<"**", "**prevention**">>}

\* The pairs with word.endswith(sub), sub # word.
ProperSuffixes ==
  {<<"rm", "confirm">>, <<"delete", "undelete">>, <<"kubectl", "mykubectl">>,
   <<"root", "**root">>, <<"racine", "Cause**racine">>,
   <<"racine", "cause**racine">>, <<"solution", "resolution">>,
   <<"time", "downtime">>, <<"**", "**ANALYSIS**">>, <<"**", "CAUSE**">>,
   <<"**", "**PREVENTION**">>, <<"**", "**analysis**">>, <<"**", "cause**">>,
   <<"**", "**prevention**">>}

\* The rest of the word behind the first place where it holds sub, whatever
\* the case, without the colons that rest starts with.
Behind(sub, word) ==
  CASE sub = "analysis" /\ word = "**ANALYSIS**" -> "**"
    [] sub = "analysis" /\ word = "**Analysis**:" -> "**:"
    [] sub = "cause" /\ word = "CAUSE**" -> "**"
    [] sub = "cause" /\ word = "Cause**racine" -> "**racine"
    [] sub = "solution" /\ word = "**SOLUTION**:" -> "**:"
    [] sub = "prevention" /\ word = "**PREVENTION**" -> "**"
    [] sub = "cause**" /\ word = "Cause**racine" -> "racine"
    [] OTHER -> ""

\* The pairs where a colon follows sub in the word.
ColonBehind ==
  {<<"analysis", "ANALYSIS:">>, <<"cause", "CAUSE:">>,
   <<"solution", "Solution:">>, <<"prévention", "Prévention:">>,
   <<"**analysis**", "**Analysis**:">>, <<"**solution**", "**SOLUTION**:">>,
   <<"time", "time:">>}

\* The words that hold "**", each with what precedes the first "**".
CutAtStars ==
  {<<"**ANALYSIS**", "">>, <<"**Analysis**:", "">>, <<"**ROOT", "">>,
   <<"CAUSE**", "CAUSE">>, <<"**SOLUTION**:", "">>, <<"**PREVENTION**", "">>,
   <<"Cause**racine", "Cause">>}

\* The same for the first "**" behind the first character of the word.
CutAtLaterStars ==
  {<<"**ANALYSIS**", "**ANALYSIS">>, <<"**Analysis**:", "**Analysis">>,
   <<"CAUSE**", "CAUSE">>, <<"**SOLUTION**:", "**SOLUTION">>,
   <<"**PREVENTION**", "**PREVENTION">>, <<"Cause**racine", "Cause">>}

\* The words that hold digits and a unit of time behind them, with the first such place.
TimeInWord ==
  {<<"5min", "5min">>}

\* The words that end with digits, with those digits.
DigitsAtEnd ==
  {<<"-9", "9">>, <<"5", "5">>, <<"n1", "1">>, <<"n2", "2">>, <<"n3", "3">>,
   <<"n4", "4">>, <<"n5", "5">>, <<"n6", "6">>, <<"n7", "7">>, <<"n8", "8">>,
   <<"n9", "9">>, <<"n10", "10">>, <<"n11", "11">>, <<"n12", "12">>,
   <<"n13", "13">>}

\* The words that start with a unit of time (minute, minutes, hour, hours, min,
\* mins, whatever the case), with that unit.
UnitAtStart ==
  {<<"minor", "min">>, <<"minutes", "minutes">>, <<"Minutes", "Minutes">>,
   <<"hours", "hours">>}

IsInfix(sub, word) == sub = word \/ <<sub, word>> \in ProperInfixes
IsPrefix(sub, word) == sub = word \/ <<sub, word>> \in ProperPrefixes
IsSuffix(sub, word) == sub = word \/ <<sub, word>> \in ProperSuffixes

\* text.lower()
Lower(text) == [i \in 1..Len(text) |-> LowerWord(text[i])]

\* text.strip()
RECURSIVE Strip(_)
Strip(text) ==
  IF text = <<>> THEN text
  ELSE IF IsSpace(Head(text)) THEN Strip(Tail(text))
  ELSE IF IsSpace(text[Len(text)]) THEN Strip(SubSeq(text, 1, Len(text) - 1))
  ELSE text

\* The occurrence of the phrase (words separated by one space) in text that
\* begins in the token at i: the first word of the phrase ends that token,
\* the last one starts its token, those between are equal; a phrase of one
\* word lies anywhere in the token.
OccursAt(phrase, text, i) ==
  LET n == Len(phrase)
  IN /\ i + n - 1 <= Len(text)
     /\ IF n = 1 THEN IsInfix(phrase[1], text[i])
        ELSE /\ IsSuffix(phrase[1], text[i])
             /\ IsPrefix(phrase[n], text[i + n - 1])
             /\ \A j \in 2..(n - 1) : phrase[j] = text[i + j - 1]

\* phrase in text
Contains(text, phrase) == \E i \in 1..Len(text) : OccursAt(phrase, text, i)

\* self.dangerous_commands and self.kubectl_destructive
dangerous_commands ==
  << <<"rm", "-rf">>, <<"delete">>, <<"destroy">>, <<"drop">>, <<"truncate">>,
     <<"format">>, <<"mkfs">>, <<"dd", "if=">>, <<"kill", "-9">> >>

kubectl_destructive == << <<"delete">>, <<"destroy">>, <<"remove">> >>

\* A member of the enum RiskLevel, and the plain str "HIGH".
RiskLevel(value) == [type |-> "RiskLevel", value |-> value]
Str(value) == [type |-> "str", value |-> value]

\* f"{prefix}{text}"
Message(prefix, text) == [prefix |-> prefix, text |-> text]

\* The safety issues the loop over the commands appends, from the i-th
\* command on: for a command that starts with kubectl one per destructive
\* verb it contains, then one per dangerous pattern it contains.
RECURSIVE CommandIssues(_, _)
CommandIssues(commands, i) ==
  IF i > Len(commands) THEN <<>>
  ELSE LET cmd == commands[i]
           cmd_lower == Strip(Lower(cmd))
           destructive == IF cmd_lower # <<>> /\ IsPrefix("kubectl", cmd_lower[1])
                          THEN SelectSeq(kubectl_destructive,
                                         LAMBDA d : Contains(cmd_lower, d))
                          ELSE <<>>
           dangerous == SelectSeq(dangerous_commands, LAMBDA d : Contains(cmd_lower, d))
       IN [j \in 1..Len(destructive) |-> Message("Destructive kubectl command: ", cmd)]
            \o [j \in 1..Len(dangerous) |-> Message("Dangerous system command: ", cmd)]
            \o CommandIssues(commands, i + 1)

\* _generate_safety_recommendations
_generate_safety_recommendations(safety_issues) ==
  IF safety_issues = <<>> THEN <<"Solution appears safe for automated execution">>
  ELSE <<"Manual review required before execution",
         "Test in staging environment first",
         "Have rollback plan ready",
         "Monitor system during execution">>

\* validate_solution_safety.  risk_level starts as RiskLevel.LOW, the loop
\* over the text sets it to RiskLevel.HIGH, the loop over the commands to the
\* str "HIGH"; is_safe compares it with RiskLevel.HIGH, and the returned
\* dict reads risk_level.value, which a str does not have: AttributeError.
validate_solution_safety(solution_text, commands) ==
  LET solution_lower == Lower(solution_text)
      text_hits == SelectSeq(dangerous_commands, LAMBDA d : Contains(solution_lower, d))
      text_issues ==
        [j \in 1..Len(text_hits) |-> Message("Dangerous command detected: ", text_hits[j])]
      command_issues == CommandIssues(commands, 1)
      safety_issues == text_issues \o command_issues
      risk_level == IF command_issues # <<>> THEN Str("HIGH")
                    ELSE IF text_issues # <<>> THEN RiskLevel("HIGH")
                    ELSE RiskLevel("LOW")
      is_safe == risk_level # RiskLevel("HIGH")
  IN IF risk_level.type = "str" THEN [raised |-> TRUE, result |-> Null]
     ELSE [raised |-> FALSE,
           result |-> [is_safe |-> is_safe,
                       risk_level |-> risk_level.value,
                       safety_issues |-> safety_issues,
                       recommendations |-> _generate_safety_recommendations(safety_issues)]]

IsWord(token) == ~IsSpace(token)

\* The least of a non-empty set of indices.
Least(S) == CHOOSE i \in S : \A j \in S : i <= j

\* text.split('\n')
RECURSIVE SplitLines(_)
SplitLines(text) ==
  LET breaks == {i \in 1..Len(text) : text[i] = NL}
  IN IF breaks = {} THEN <<text>>
     ELSE <<SubSeq(text, 1, Least(breaks) - 1)>>
            \o SplitLines(SubSeq(text, Least(breaks) + 1, Len(text)))

\* re.findall(r'```(?:bash|shell|sh)?\n(.*?)\n```', content, re.DOTALL), the
\* search starting at the token `from`: a block opens where a fence, alone
\* or with one of the three names, ends a word that ends its line; it ends
\* at the first later newline that a fence follows at once; the search goes
\* on behind that fence.
RECURSIVE code_blocks(_, _)
code_blocks(content, from) ==
  LET Closes(i) == {j \in (i + 2)..(Len(content) - 1) :
                      content[j] = NL /\ IsPrefix(Fence, content[j + 1])}
      opens == {i \in from..(Len(content) - 1) :
                  /\ \E name \in {"", "bash", "shell", "sh"} :
                       IsSuffix(Fence \o name, content[i])
                  /\ content[i + 1] = NL
                  /\ Closes(i) # {}}
  IN IF opens = {} THEN <<>>
     ELSE LET i == Least(opens)
              j == Least(Closes(i))
          IN <<SubSeq(content, i + 2, j - 1)>> \o code_blocks(content, j + 2)

\* The commands of a block: its lines, stripped, but for the empty ones
\* and those that start with '#'.
block_commands(block) ==
  LET lines == SplitLines(Strip(block))
  IN SelectSeq([k \in 1..Len(lines) |-> Strip(lines[k])],
               LAMBDA line : line # <<>> /\ ~IsPrefix("#", line[1]))

\* re.findall(tool + r'\s+[^\n]+', content), the search starting at the token
\* `from`: the name, as written, ends a word and white space follows it, then
\* at least one more character; the match is the name, the white space
\* (newlines too) and the line of the next word, to its end; the search goes
\* on behind that line.
RECURSIVE findall_tool(_, _, _)
findall_tool(tool, content, from) ==
  LET Words(i) == {j \in (i + 1)..Len(content) : IsWord(content[j])}
      starts == {i \in from..Len(content) : IsSuffix(tool, content[i]) /\ Words(i) # {}}
  IN IF starts = {} THEN <<>>
     ELSE LET i == Least(starts)
              k == Least({k \in Least(Words(i))..Len(content) :
                            k = Len(content) \/ content[k + 1] = NL})
          IN << <<tool>> \o SubSeq(content, i + 1, k) >> \o findall_tool(tool, content, k + 1)

\* The concatenation of the sequences of a sequence.
RECURSIVE Flatten(_)
Flatten(seqs) == IF seqs = <<>> THEN <<>> ELSE Head(seqs) \o Flatten(Tail(seqs))

\* The commands _extract_commands collects, in its order: those of the code
\* blocks, then the kubectl, helm, docker and systemctl invocations.
collected_commands(content) ==
  LET blocks == code_blocks(content, 1)
  IN Flatten([b \in 1..Len(blocks) |-> block_commands(blocks[b])])
       \o Flatten([t \in 1..4 |->
                     findall_tool(<<"kubectl", "helm", "docker", "systemctl">>[t], content, 1)])

\* The loop over the commands with the set `seen`: the first of each.
RECURSIVE unique_commands(_, _)
unique_commands(commands, seen) ==
  IF commands = <<>> THEN <<>>
  ELSE IF Head(commands) \in seen THEN unique_commands(Tail(commands), seen)
  ELSE <<Head(commands)>> \o unique_commands(Tail(commands), seen \cup {Head(commands)})

\* unique_commands[:10]
CommandLimit == 10

\* Faulty variant: the limit is applied before the duplicates are removed.
_extract_commands_limit_first(content) ==
  LET commands == collected_commands(content)
  IN unique_commands(SubSeq(commands, 1, Min(CommandLimit, Len(commands))), {})

\* _extract_commands
_extract_commands(content) ==
  LET unique == unique_commands(collected_commands(content), {})
  IN SubSeq(unique, 1, Min(CommandLimit, Len(unique)))

\* The keywords of _determine_priority.
high_priority_keywords ==
  << <<"critical">>, <<"urgent">>, <<"down">>, <<"outage">>, <<"failure">>,
     <<"crash">>, <<"emergency">>, <<"severe">>, <<"production">> >>

low_priority_keywords ==
  << <<"minor">>, <<"cosmetic">>, <<"enhancement">>, <<"optimization">>,
     <<"cleanup">>, <<"documentation">>, <<"low", "impact">> >>

\* Faulty variant: a tie of the two counts is HIGH.
_determine_priority_tie_high(content) ==
  LET content_lower == Lower(content)
      high_count == Len(SelectSeq(high_priority_keywords,
                                  LAMBDA keyword : Contains(content_lower, keyword)))
      low_count == Len(SelectSeq(low_priority_keywords,
                                 LAMBDA keyword : Contains(content_lower, keyword)))
  IN IF high_count >= low_count /\ high_count > 0 THEN "High"
     ELSE IF low_count > 0 THEN "Low"
     ELSE "Medium"

\* _determine_priority: Priority.HIGH.value, .LOW.value or .MEDIUM.value
_determine_priority(content) ==
  LET content_lower == Lower(content)
      high_count == Len(SelectSeq(high_priority_keywords,
                                  LAMBDA keyword : Contains(content_lower, keyword)))
      low_count == Len(SelectSeq(low_priority_keywords,
                                 LAMBDA keyword : Contains(content_lower, keyword)))
  IN IF high_count > low_count /\ high_count > 0 THEN "High"
     ELSE IF low_count > 0 THEN "Low"
     ELSE "Medium"

\* A match of re.search with its group(1).strip(), and no match.
Match(text) == [matched |-> TRUE, text |-> text]
NoMatch == [matched |-> FALSE, text |-> <<>>]

\* The first match among those tried in order, as a for loop returns it.
RECURSIVE FirstMatch(_)
FirstMatch(tried) ==
  IF tried = <<>> THEN NoMatch
  ELSE IF Head(tried).matched THEN Head(tried)
  ELSE FirstMatch(Tail(tried))

\* The tokens from the i-th to the end of its line.
LineFrom(content, i) ==
  SubSeq(content, i, Least({k \in i..Len(content) :
                              k = Len(content) \/ content[k + 1] = NL}))

\* re.search(heading + r'[:\s]*(.+?)(?=\*\*|\n\n|$)', content, re.IGNORECASE |
\* re.DOTALL) and the group stripped; without stars the lookahead is
\* (?=\n\n|$).  The heading is found at its first place where anything
\* follows it.  Colons and white space behind it are passed over; the group
\* runs from the next character to the first "**", blank line or end of the
\* text behind its first character.  Where only colons and white space
\* follow the heading, the group is the last of these characters.
search_section(content, heading, stars) ==
  LET n == Len(heading)
      lower == Lower(content)
      places == {i \in 1..Len(content) : OccursAt(heading, lower, i)}
  IN IF places = {} THEN NoMatch
     ELSE
       LET e == Least(places) + n - 1
           rest == Behind(heading[n], content[e])
           words == {j \in (e + 1)..Len(content) : IsWord(content[j])}
           s == IF rest # "" THEN e ELSE Least(words)
           first == IF rest # "" THEN rest ELSE content[s]
           Cuts(table, word) == {pair \in table : pair[1] = word}
           Cut(table, word) == (CHOOSE pair \in Cuts(table, word) : TRUE)[2]
           stop == Least({k \in (s + 1)..(Len(content) + 1) :
                            \/ k = Len(content) + 1
                            \/ k < Len(content) /\ content[k] = NL /\ content[k + 1] = NL
                            \/ stars /\ Cuts(CutAtStars, content[k]) # {}})
           last == IF stop <= Len(content) /\ stars /\ Cuts(CutAtStars, content[stop]) # {}
                      /\ Cut(CutAtStars, content[stop]) # ""
                   THEN <<Cut(CutAtStars, content[stop])>>
                   ELSE <<>>
       IN IF rest = "" /\ words = {}
          THEN IF e < Len(content) THEN Match(<<>>)
               ELSE IF <<heading[n], content[e]>> \in ColonBehind THEN Match(<<":">>)
               ELSE NoMatch
          ELSE IF stars /\ Cuts(CutAtLaterStars, first) # {}
          THEN Match(<<Cut(CutAtLaterStars, first)>>)
          ELSE Match(Strip(<<first>> \o SubSeq(content, s + 1, stop - 1) \o last))

\* "**" + section_name + "**", as words.
Bold(name) ==
  [k \in 1..Len(name) |->
     (IF k = 1 THEN "**" ELSE "") \o name[k] \o (IF k = Len(name) THEN "**" ELSE "")]

\* _extract_section: for each name the pattern with the name between "**",
\* then the pattern with the name alone.  The third pattern, the bold name
\* behind a number, matches only where the first one does and is never
\* reached with a match.
_extract_section(content, section_names) ==
  FirstMatch(Flatten([k \in 1..Len(section_names) |->
                        <<search_section(content, Bold(section_names[k]), TRUE),
                          search_section(content, section_names[k], FALSE)>>])).text

\* re.search(first + r'\s+' + second + r'[:\s]*([^\n]+)', content,
\* re.IGNORECASE) and the group stripped: a word that ends with one of
\* `firsts`, the next word starting with `second`; behind it colons and
\* white space are passed over, and the group is the rest of the line.
search_time(content, firsts, second) ==
  LET lower == Lower(content)
      NextWord(i) == Least({j \in (i + 1)..Len(content) : IsWord(content[j])})
      places == {i \in 1..Len(content) :
                   /\ \E first \in firsts : IsSuffix(first, lower[i])
                   /\ \E j \in (i + 1)..Len(content) : IsWord(content[j])
                   /\ IsPrefix(second, lower[NextWord(i)])}
  IN IF places = {} THEN NoMatch
     ELSE
       LET j == NextWord(Least(places))
           rest == Behind(second, content[j])
           words == {k \in (j + 1)..Len(content) : IsWord(content[k])}
       IN IF rest # "" THEN Match(<<rest>> \o Tail(LineFrom(content, j)))
          ELSE IF words # {} THEN Match(LineFrom(content, Least(words)))
          ELSE IF <<second, content[j]>> \in ColonBehind THEN Match(<<":">>)
          ELSE NoMatch

\* re.search(r'(\d+\s*(?:minutes?|hours?|mins?))', content, re.IGNORECASE):
\* digits and a unit in one word, or digits that end a word and a unit that
\* starts the next one, with the white space between them.
search_duration(content) ==
  LET Of(table, word) == {pair[2] : pair \in {p \in table : p[1] = word}}
      Only(S) == CHOOSE x \in S : TRUE
      NextWord(i) == Least({j \in (i + 1)..Len(content) : IsWord(content[j])})
      Across(i) == /\ Of(DigitsAtEnd, content[i]) # {}
                   /\ \E j \in (i + 1)..Len(content) : IsWord(content[j])
                   /\ Of(UnitAtStart, content[NextWord(i)]) # {}
      places == {i \in 1..Len(content) : Of(TimeInWord, content[i]) # {} \/ Across(i)}
  IN IF places = {} THEN NoMatch
     ELSE LET i == Least(places)
          IN IF Of(TimeInWord, content[i]) # {} THEN Match(<<Only(Of(TimeInWord, content[i]))>>)
             ELSE Match(<<Only(Of(DigitsAtEnd, content[i]))>>
                          \o SubSeq(content, i + 1, NextWord(i) - 1)
                          \o <<Only(Of(UnitAtStart, content[NextWord(i)]))>>)

\* _extract_estimated_time
_extract_estimated_time(content) ==
  LET found == FirstMatch(<<search_time(content, {"estimate", "estimated"}, "time"),
                            search_time(content, {"resolution"}, "time"),
                            search_time(content, {"should"}, "take"),
                            search_duration(content)>>)
  IN IF found.matched THEN found.text ELSE <<"Unknown">>

\* The names parse_llm_response passes to _extract_section.
section_names ==
  [analysis |-> << <<"analysis">>, <<"analyse">> >>,
   root_cause |-> << <<"root", "cause">>, <<"cause", "racine">> >>,
   solution |-> << <<"solution">> >>,
   prevention |-> << <<"prevention">>, <<"prévention">> >>]

\* No step of the try block raises on a str.
parsing_raises(llm_content) == FALSE

\* Faulty variant: a section that matches no pattern is the whole text.
parse_llm_response_whole_text(llm_content) ==
  LET Section(names) ==
        IF \A k \in 1..Len(names) :
             ~search_section(llm_content, names[k], FALSE).matched
        THEN Strip(llm_content)
        ELSE _extract_section(llm_content, names)
  IN [analysis |-> Section(section_names.analysis),
      root_cause |-> Section(section_names.root_cause),
      solution |-> Section(section_names.solution),
      prevention |-> Section(section_names.prevention),
      commands |-> _extract_commands(llm_content),
      estimated_time |-> _extract_estimated_time(llm_content),
      priority |-> _determine_priority(llm_content)]

\* parse_llm_response: the dict it returns; it catches every exception.
parse_llm_response(llm_content) ==
  IF parsing_raises(llm_content)
  THEN [analysis |-> <<"Parsing", "error:">>,
        root_cause |-> <<>>,
        solution |-> <<"Manual", "review", "required", "due", "to", "parsing", "failure">>,
        prevention |-> <<>>,
        commands |-> <<>>,
        estimated_time |-> <<"Unknown">>,
        priority |-> "Medium"]
  ELSE [analysis |-> _extract_section(llm_content, section_names.analysis),
        root_cause |-> _extract_section(llm_content, section_names.root_cause),
        solution |-> _extract_section(llm_content, section_names.solution),
        prevention |-> _extract_section(llm_content, section_names.prevention),
        commands |-> _extract_commands(llm_content),
        estimated_time |-> _extract_estimated_time(llm_content),
        priority |-> _determine_priority(llm_content)]

\* ------------------------------------------------- the reasoning engine
\* reasoning_engine.py names Enum without importing it; the definitions here
\* are those of the module once that name is supplied.  Scores are counted in
\* hundredths, costs in ten-thousandths of a dollar, the average processing
\* time is a fraction <<numerator, denominator>>.

\* The dataclass LLMResponse of llm_client.py: its fields, of which only
\* reasoning_steps has a default, and the construction from keyword
\* arguments, which raises TypeError on a keyword that is no field and on a
\* missing field.
LLMResponseFields ==
  {"content", "provider", "model", "tokens_used", "cost_estimate", "reasoning_steps"}

LLMResponse(kwargs) ==
  IF /\ DOMAIN kwargs \subseteq LLMResponseFields
     /\ (LLMResponseFields \ {"reasoning_steps"}) \subseteq DOMAIN kwargs
  THEN Returned(kwargs @@ [reasoning_steps |-> None])
  ELSE Raised("TypeError")

\* _calculate_openai_cost: 70% of the tokens at $0.01 and 30% at $0.03 per
\* thousand, rounded to four decimals.
_calculate_openai_cost(total_tokens) ==
  LET input_tokens == (total_tokens * 7) \div 10
      output_tokens == (total_tokens * 3) \div 10
  IN (input_tokens * 10 + output_tokens * 30 + 50) \div 100

\* LLMClient.generate_solution on the answer of the provider: without a
\* configured client, and when the call of the provider raises, the exception
\* "All LLM providers failed"; otherwise the completion as an LLMResponse.
generate_solution(reply) ==
  IF reply.kind # "completion" THEN Raised("Exception")
  ELSE LLMResponse([content |-> reply.content, provider |-> "openai",
                    model |-> "gpt-4o-mini", tokens_used |-> reply.total_tokens,
                    cost_estimate |-> _calculate_openai_cost(reply.total_tokens)])

\* len(text): the characters of the tokens and one space between two words.
RECURSIVE CharLen(_)
CharLen(text) ==
  IF text = <<>> THEN 0
  ELSE LET token == Head(text)
           chars == IF IsInfix(Fence, token) THEN Len(token) - 4 ELSE Len(token)
           space == IF Len(text) > 1 /\ IsWord(token) /\ IsWord(text[2]) THEN 1 ELSE 0
       IN chars + space + CharLen(Tail(text))

\* _calculate_confidence_score, in hundredths.
_calculate_confidence_score(llm_response, parsed_solution) ==
  LET required_sections == {"analysis", "root_cause", "solution", "prevention"}
      completed_sections ==
        Cardinality({section \in required_sections : parsed_solution[section] # <<>>})
      response_length == CharLen(llm_response.content)
      score == completed_sections * 10
                 + (IF response_length > 500 THEN 20
                    ELSE IF response_length > 200 THEN 10 ELSE 0)
                 + (IF parsed_solution.commands # <<>> THEN 20 ELSE 0)
                 + (IF llm_response.provider \in {"openai", "anthropic"} THEN 10 ELSE 0)
  IN IF score < 100 THEN score ELSE 100

\* _assess_risk_level: the keywords of high risk in the solution text, then
\* those of medium risk in it, and only then the commands.
_assess_risk_level(parsed_solution) ==
  LET commands == parsed_solution.commands
      solution_text == Lower(parsed_solution.solution)
      high_risk_keywords == {"delete", "remove", "destroy", "drop", "terminate"}
      medium_risk_keywords == {"restart", "scale", "update", "patch", "modify"}
  IN IF \E keyword \in high_risk_keywords : Contains(solution_text, <<keyword>>)
     THEN RiskLevel("HIGH")
     ELSE IF \E keyword \in medium_risk_keywords : Contains(solution_text, <<keyword>>)
     THEN RiskLevel("MEDIUM")
     ELSE IF \E i \in 1..Len(commands) :
               \E risk_cmd \in {"delete", "rm", "destroy"} :
                  Contains(Lower(commands[i]), <<risk_cmd>>)
     THEN RiskLevel("HIGH")
     ELSE RiskLevel("LOW")

\* ReasoningEngine._parse_llm_response: the IncidentAnalysis built from the
\* parsed response.
_parse_llm_response(llm_response, incident_id) ==
  CHOOSE incident_analysis \in
    {[incident_id |-> incident_id,
      analysis |-> parsed_solution.analysis,
      root_cause |-> parsed_solution.root_cause,
      solution |-> parsed_solution.solution,
      prevention |-> parsed_solution.prevention,
      commands |-> parsed_solution.commands,
      confidence_score |-> _calculate_confidence_score(llm_response, parsed_solution),
      estimated_resolution_time |-> parsed_solution.estimated_time,
      risk_level |-> _assess_risk_level(parsed_solution)] :
       parsed_solution \in {parse_llm_response(llm_response.content)}} : TRUE

\* ReasoningEngine._validate_solution_safety: is_safe of the validation, whose
\* exception it lets through.
_validate_solution_safety(incident_analysis) ==
  LET safety_result == validate_solution_safety(incident_analysis.solution,
                                                incident_analysis.commands)
  IN IF safety_result.raised THEN Raised("AttributeError")
     ELSE Returned(safety_result.result.is_safe)

\* _create_fallback_analysis
_create_fallback_analysis(incident_id, error_message) ==
  [incident_id |-> incident_id,
   analysis |-> <<"Automated", "analysis", "failed:", error_message>>,
   root_cause |-> <<"Unable", "to", "determine", "due", "to", "processing", "error">>,
   solution |-> <<"Manual", "investigation", "required">>,
   prevention |-> <<"Review", "system", "logs", "and", "contact", "DevOps", "team">>,
   commands |-> <<>>,
   confidence_score |-> 0,
   estimated_resolution_time |-> <<"Manual">>,
   risk_level |-> Str("UNKNOWN")]

\* The tags of an event: a list, or the None of an event that has none.
Tags(items) == [listed |-> TRUE, items |-> items]
NoTags == [listed |-> FALSE, items |-> <<>>]

\* _prepare_context raises when format_context does: _extract_tag_summary
\* takes len(tags) of tags that are not a list.
prepare_context_raises(enriched_data) == ~enriched_data.event_details.tags.listed

\* _create_context_summary
_create_context_summary(enriched_data) ==
  LET event_details == enriched_data.event_details
      k8s_context == enriched_data.k8s_context
      Get(dict, key, default) == IF key \in DOMAIN dict THEN dict[key] ELSE default
  IN [event_id |-> event_details.event_id,
      event_type |-> None,
      namespace |-> Get(k8s_context, "namespace", None),
      pod_count |-> Len(Get(k8s_context, "pods", <<>>)),
      deployment_count |-> Len(Get(k8s_context, "deployments", <<>>)),
      enrichment_status |-> enriched_data.enrichment_status,
      processing_timestamp |-> enriched_data.processing_time]

\* The counters of a new ReasoningEngine and of its LLMClient.
NewEngine ==
  [total_incidents_processed |-> 0, successful_resolutions |-> 0,
   average_processing_time |-> <<0, 1>>,
   total_tokens_used |-> 0, total_cost |-> 0]

\* _update_statistics
_update_statistics(self, processing_time, success) ==
  LET total == self.total_incidents_processed + 1
      average == self.average_processing_time
  IN [self EXCEPT
        !.total_incidents_processed = total,
        !.successful_resolutions = IF success THEN @ + 1 ELSE @,
        !.average_processing_time =
           IF total = 1 THEN <<processing_time, 1>>
           ELSE <<average[1] * (total - 1) + processing_time * average[2],
                  average[2] * total>>]

\* LLMClient._update_usage_stats, which _call_openai calls before it returns.
_update_usage_stats(self, reply) ==
  IF reply.kind # "completion" THEN self
  ELSE [self EXCEPT !.total_tokens_used = @ + reply.total_tokens,
                    !.total_cost = @ + _calculate_openai_cost(reply.total_tokens)]

\* The except branch of analyze_incident: the statistics, then the
\* ReasoningResult, whose llm_response is built with the keywords content,
\* model, tokens_used and cost.
AnalysisFailed(self, enriched_data, incident_id, error_message, processing_time) ==
  LET counted == _update_statistics(self, processing_time, FALSE)
      fallback == _create_fallback_analysis(incident_id, error_message)
      llm_response == LLMResponse([content |-> <<>>, model |-> "fallback",
                                   tokens_used |-> 0, cost |-> 0])
  IN IF llm_response.exc # "none"
     THEN [raised |-> TRUE, exc |-> llm_response.exc, result |-> Null, self |-> counted]
     ELSE [raised |-> FALSE, exc |-> "none", self |-> counted,
           result |-> [incident_analysis |-> fallback,
                       llm_response |-> llm_response.value,
                       context_summary |-> _create_context_summary(enriched_data),
                       processing_time |-> processing_time,
                       success |-> FALSE,
                       error_message |-> error_message]]

\* analyze_incident on an engine with the counters self: what it raises or
\* returns, and the counters it leaves.  start_time and processing_time are
\* the readings of the clock, reply the answer of the provider.
analyze_incident(self, enriched_data, reply, start_time, processing_time) ==
  LET event_details == enriched_data.event_details
      incident_id == IF event_details.event_id # None THEN event_details.event_id
                     ELSE "incident_" \o ToString(start_time)
      called == _update_usage_stats(self, reply)
      Analysed(llm_response) ==
        CHOOSE res \in
          {IF _validate_solution_safety(incident_analysis).exc # "none"
           THEN AnalysisFailed(called, enriched_data, incident_id,
                               _validate_solution_safety(incident_analysis).exc,
                               processing_time)
           ELSE [raised |-> FALSE, exc |-> "none",
                 self |-> _update_statistics(called, processing_time, TRUE),
                 result |-> [incident_analysis |-> incident_analysis,
                             llm_response |-> llm_response,
                             context_summary |-> _create_context_summary(enriched_data),
                             processing_time |-> processing_time,
                             success |-> TRUE,
                             error_message |-> None]] :
             incident_analysis \in {_parse_llm_response(llm_response, incident_id)}} : TRUE
  IN IF prepare_context_raises(enriched_data)
     THEN AnalysisFailed(self, enriched_data, incident_id, "TypeError", processing_time)
     ELSE IF generate_solution(reply).exc # "none"
     THEN AnalysisFailed(called, enriched_data, incident_id,
                         "All LLM providers failed", processing_time)
     ELSE Analysed(generate_solution(reply).value)

\* ------------------------------------------------- K8sClientManager
\* The class and the threads that use it.  An object is the number of its
\* creation, 0 is None.  The class holds _instance and _lock (0, or the
\* thread that holds it); every instance holds its own _v1_client,
\* _apps_v1_client and _config_loaded once they are assigned.  loads,
\* v1_built, apps_built and resets count what has happened (history).  A
\* thread is at a line of __new__ ("n..") or of get_clients ("g.."), each
\* read and each write of a shared attribute being a step of its own, or
\* between two calls ("idle"); self is the manager its last construction
\* returned, calls the number of calls it has made, returned the pair its
\* last get_clients returned.
MaxThreads == 2
MaxCalls == 2
MaxResets == 1

Threads == 1..MaxThreads

NewInstance == [_v1_client |-> 0, _apps_v1_client |-> 0, _config_loaded |-> FALSE]

NewThread == [pc |-> "idle", self |-> 0, calls |-> 0, returned |-> Null, raised |-> FALSE]

ManagerClass ==
  [_instance |-> 0, _lock |-> 0, instances |-> <<>>,
   loads |-> 0, v1_built |-> 0, apps_built |-> 0, resets |-> 0,
   threads |-> [t \in Threads |-> NewThread]]

\* The thread t of m at pc, the rest of it as before.
At(m, t, pc) == [m EXCEPT !.threads[t].pc = pc]

\* with cls._lock: the entry, for a thread that finds the lock free.
Acquire(m, t, pc) == [At(m, t, pc) EXCEPT !._lock = t]

\* The exit of the with block.
Release(m, t, pc) == [At(m, t, pc) EXCEPT !._lock = 0]

\* Faulty variant: the test under the lock is left out.
clients_missing_unchecked(instance) == TRUE

\* self._v1_client is None or self._apps_v1_client is None, as the test
\* under the lock evaluates it.
clients_missing(instance) == instance._v1_client = 0 \/ instance._apps_v1_client = 0

\* ------------------------------------------------------------- the state
VARIABLES
  alerts,     \* the alerts table: its rows, in insertion order
  now,        \* the backend clock NOW(), in minutes
  reqs,       \* the webhook requests received so far, each with its position
  wpc,        \* the worker loop: "poll", "run" (inside the for loop), "sleep"
  wait,       \* the seconds of the worker's current sleep, 0 when awake
  batch,      \* the alerts of pending_alerts the for loop has not reached yet
  tasks,      \* the _process_alert_async calls in progress
  lastpass,   \* per alert hash, what its last finished pass did (history)
  writes,     \* per alert hash, the applied status writes other than RESOLVED (history)
  cluster,    \* the cluster read by a discovery that is called directly
  call,       \* the last operation called directly: its arguments and its result
  engine,     \* the statistics a ReasoningEngine keeps from call to call
  manager     \* the class K8sClientManager and the threads that use it

vars == <<alerts, now, reqs, wpc, wait, batch, tasks, lastpass, writes, cluster, call,
          engine, manager>>

PollSeconds == 5
BackoffSeconds == 10

Init ==
  /\ alerts = <<>>
  /\ now = 0
  /\ reqs = <<>>
  /\ wpc = "poll"
  /\ wait = 0
  /\ batch = <<>>
  /\ tasks = <<>>
  /\ lastpass = [h \in Hashes |-> Null]
  /\ writes = [h \in Hashes |-> 0]
  /\ cluster = Null
  /\ call = Null
  /\ engine = NewEngine
  /\ manager = ManagerClass

\* The history of applied writes after one more call of update_alert_status.
Counted(w, tbl, h, status, ok) ==
  IF ok /\ HasRow(tbl, h) /\ status # RESOLVED THEN [w EXCEPT ![h] = @ + 1] ELSE w

\* The status column of the row of hash h, None when there is no such row.
StatusOf(tbl, h) ==
  IF HasRow(tbl, h) THEN tbl[CHOOSE i \in RowsOf(tbl, h) : TRUE].status ELSE None

\* ---------------------------------------------------- datadog_webhook
\* The request body arrives: validation and hashing run up to the first
\* await on the store.  The fields from save on are history: what the insert
\* met (save) and the status of the row it met (met), whether an accepted
\* submission of the hash had already been saved when the request arrived
\* (later), whether the check ran while another submission of the hash stood
\* between its own check and its save (raced).
WebhookReceive(payload) ==
  /\ Len(reqs) < MaxRequests
  /\ LET h == _generate_alert_hash(payload)
     IN reqs' = Append(reqs,
          IF _validate_payload(payload)
          THEN [payload |-> payload, alert_hash |-> h, pc |-> "check",
                resp |-> None, save |-> "none", met |-> None, raced |-> FALSE,
                later |-> /\ HasRow(alerts, h)
                          /\ \E j \in 1..Len(reqs) :
                                /\ reqs[j].alert_hash = h
                                /\ reqs[j].resp = "accepted"]
          ELSE [payload |-> payload, alert_hash |-> Null, pc |-> "done",
                resp |-> "error", save |-> "none", met |-> None, raced |-> FALSE,
                later |-> FALSE])
  /\ UNCHANGED <<alerts, now, wpc, wait, batch, tasks, lastpass, writes, cluster, call,
               engine, manager>>

\* await db.is_alert_received(alert_hash), then the duplicate answer or on
\* to the save.
WebhookCheck(r) ==
  /\ r \in 1..Len(reqs)
  /\ reqs[r].pc = "check"
  /\ \E ok \in BOOLEAN :
       reqs' = [reqs EXCEPT ![r] =
                  IF is_alert_received(alerts, reqs[r].alert_hash, ok)
                  THEN [@ EXCEPT !.pc = "done", !.resp = "duplicate"]
                  ELSE [@ EXCEPT !.pc = "save",
                                 !.raced = \E j \in 1..Len(reqs) :
                                              /\ j # r
                                              /\ reqs[j].pc = "save"
                                              /\ reqs[j].alert_hash = reqs[r].alert_hash]]
  /\ UNCHANGED <<alerts, now, wpc, wait, batch, tasks, lastpass, writes, cluster, call,
               engine, manager>>

\* await db.save_alert(payload, alert_hash), then 202 accepted; an exception
\* of the save becomes the 400 answer.
WebhookSave(r) ==
  /\ r \in 1..Len(reqs)
  /\ reqs[r].pc = "save"
  /\ \E ok \in BOOLEAN :
       LET res == save_alert(alerts, reqs[r].payload, reqs[r].alert_hash, now, ok)
       IN /\ alerts' = res.table
          /\ reqs' = [reqs EXCEPT ![r] =
                        [@ EXCEPT !.pc = "done",
                                  !.resp = IF res.raised THEN "error" ELSE "accepted",
                                  !.save = IF ~ok THEN "failed"
                                           ELSE IF HasRow(alerts, reqs[r].alert_hash)
                                           THEN "conflict" ELSE "inserted",
                                  !.met = StatusOf(alerts, reqs[r].alert_hash)]]
  /\ UNCHANGED <<now, wpc, wait, batch, tasks, lastpass, writes, cluster, call,
               engine, manager>>

\* GET /queue/status: reads the pending alerts, changes nothing.
QueueStatus ==
  /\ \E ok \in BOOLEAN :
       \E pending \in get_pending_alerts(alerts, DefaultLimit, now, ok) :
          Len(pending) >= 0
  /\ UNCHANGED vars

CleanupDays == {0, 30}

\* POST /admin/cleanup?days=n
Cleanup(days) ==
  /\ \E ok \in BOOLEAN :
       alerts' = cleanup_old_alerts(alerts, days, now, ok).table
  /\ UNCHANGED <<now, reqs, wpc, wait, batch, tasks, lastpass, writes, cluster, call,
               engine, manager>>

\* The backend clock advances.
Tick ==
  /\ now < MaxTime
  /\ now' = now + 1
  /\ UNCHANGED <<alerts, reqs, wpc, wait, batch, tasks, lastpass, writes, cluster, call,
               engine, manager>>

\* ------------------------------------------------------- _alert_worker
\* pending_alerts = await db.get_pending_alerts(); an empty list goes
\* straight to the sleep, an exception of the call to the while loop's except
\* branch and its longer sleep.
WorkerPoll ==
  /\ wpc = "poll"
  /\ \E ok \in BOOLEAN :
       IF get_pending_alerts_raises(ok)
       THEN /\ batch' = <<>>
            /\ wpc' = "sleep"
            /\ wait' = BackoffSeconds
       ELSE \E pending \in get_pending_alerts(alerts, DefaultLimit, now, ok) :
               IF pending # <<>>
               THEN /\ batch' = pending
                    /\ wpc' = "run"
                    /\ wait' = 0
               ELSE /\ batch' = <<>>
                    /\ wpc' = "sleep"
                    /\ wait' = PollSeconds
  /\ UNCHANGED <<alerts, now, reqs, tasks, lastpass, writes, cluster, call,
               engine, manager>>

\* Faulty variant: the call starts at the event retrieval, without the
\* PROCESSING write.
NewTask_without_pickup(alert) ==
  [alert_hash |-> alert.alert_hash, payload |-> alert.payload, stage |-> "event",
   event_details |-> Null, pod_name |-> None, namespace |-> None,
   deployment |-> None, k8s_context |-> Null,
   flip_ok |-> FALSE, event |-> "none", podtag |-> FALSE, discovery |-> "none",
   exc |-> FALSE]

\* A call of _process_alert_async in its first position.  The fields from
\* flip_ok on are history: whether the PROCESSING write was applied, what the
\* event retrieval and the discovery did, whether an exception was caught.
NewTask(alert) ==
  [alert_hash |-> alert.alert_hash, payload |-> alert.payload, stage |-> "start",
   event_details |-> Null, pod_name |-> None, namespace |-> None,
   deployment |-> None, k8s_context |-> Null,
   flip_ok |-> FALSE, event |-> "none", podtag |-> FALSE, discovery |-> "none",
   exc |-> FALSE]

\* for alert in pending_alerts: await _process_alert_async(payload, alert_hash)
\* -- the next alert is started only when the previous call has returned.
WorkerDispatch ==
  /\ wpc = "run"
  /\ tasks = <<>>
  /\ batch # <<>>
  /\ tasks' = <<NewTask(Head(batch))>>
  /\ batch' = Tail(batch)
  /\ UNCHANGED <<alerts, now, reqs, wpc, wait, lastpass, writes, cluster, call,
               engine, manager>>

\* The for loop is through: await asyncio.sleep(5).
WorkerBatchDone ==
  /\ wpc = "run"
  /\ tasks = <<>>
  /\ batch = <<>>
  /\ wpc' = "sleep"
  /\ wait' = PollSeconds
  /\ UNCHANGED <<alerts, now, reqs, batch, tasks, lastpass, writes, cluster, call,
               engine, manager>>

\* The sleep is over: the next turn of the while loop.
WorkerWake ==
  /\ wpc = "sleep"
  /\ wpc' = "poll"
  /\ wait' = 0
  /\ UNCHANGED <<alerts, now, reqs, batch, tasks, lastpass, writes, cluster, call,
               engine, manager>>

\* ------------------------------------------------- _process_alert_async
\* The positions of a call at one of its FAILED writes: the no-pod branch
\* (inside the inner try), the inner except branch, the no-event-id branch,
\* the outer except branch, and the except branch of the worker's for loop,
\* entered when an exception has left the call.
FailStages == {"fail_nopod", "fail_exc", "fail_noid", "outer", "loop"}

\* Where an exception raised by the FAILED write of a position is caught.
CaughtAt(stage) ==
  IF stage = "fail_nopod" THEN "fail_exc"
  ELSE IF stage \in {"fail_exc", "fail_noid"} THEN "outer"
  ELSE "loop"

\* await db.update_alert_status(alert_hash, AlertStatus.PROCESSING), then the
\* test of the payload's event id.
TaskMarkProcessing(k) ==
  /\ k \in 1..Len(tasks)
  /\ tasks[k].stage = "start"
  /\ \E ok \in BOOLEAN :
       /\ alerts' = update_alert_status(alerts, tasks[k].alert_hash, PROCESSING,
                                        None, Null, now, ok)
       /\ tasks' = [tasks EXCEPT ![k] =
                      IF update_alert_status_raises(ok)
                      THEN [@ EXCEPT !.stage = "outer", !.exc = TRUE]
                      ELSE [@ EXCEPT !.flip_ok = ok /\ HasRow(alerts, tasks[k].alert_hash),
                                     !.stage = IF tasks[k].payload.event_id # ""
                                               THEN "event" ELSE "fail_noid",
                                     !.event = IF tasks[k].payload.event_id # ""
                                               THEN "none" ELSE "noid"]]
       /\ writes' = Counted(writes, alerts, tasks[k].alert_hash, PROCESSING, ok)
  /\ UNCHANGED <<now, reqs, wpc, wait, batch, lastpass, cluster, call,
               engine, manager>>

\* await datadog_manager.get_runtime_event(int(event_id)) and the tag
\* extraction: an exception (of int() or of the call) goes to the inner
\* except branch, a pod name to the discovery, no pod name to the FAILED write.
TaskGetEvent(k) ==
  /\ k \in 1..Len(tasks)
  /\ tasks[k].stage = "event"
  /\ \E reply \in DatadogReplies :
       LET t == tasks[k]
           res == IF IsNumeric(t.payload.event_id)
                  THEN get_runtime_event(t.payload.event_id, reply)
                  ELSE [raised |-> TRUE, details |-> Null]
           info == _extract_k8s_info_from_tags(res.details.tags)
       IN tasks' = [tasks EXCEPT ![k] =
            IF res.raised
            THEN [t EXCEPT !.stage = "fail_exc", !.event = "raised", !.exc = TRUE]
            ELSE [t EXCEPT !.event_details = res.details,
                           !.pod_name = info.pod_name,
                           !.namespace = info.namespace,
                           !.deployment = info.deployment,
                           !.event = IF reply.kind = "notfound" THEN "notfound" ELSE "ok",
                           !.podtag = \E i \in 1..Len(res.details.tags) :
                                         res.details.tags[i].key = "pod_name",
                           !.stage = IF TruthyStr(info.pod_name) THEN "k8s" ELSE "fail_nopod"]]
  /\ UNCHANGED <<alerts, now, reqs, wpc, wait, batch, lastpass, writes, cluster, call,
               engine, manager>>

\* k8s_context = await get_k8s_context(namespace, pod_name, deployment)
TaskDiscover(k) ==
  /\ k \in 1..Len(tasks)
  /\ tasks[k].stage = "k8s"
  /\ \E reply \in K8sReplies :
     \E t \in {tasks[k]} :
     \E res \in {get_k8s_context(t.namespace, t.pod_name, t.deployment, reply)} :
          tasks' = [tasks EXCEPT ![k] =
            IF res.raised
            THEN [t EXCEPT !.stage = "fail_exc", !.discovery = "raised", !.exc = TRUE]
            ELSE [t EXCEPT !.k8s_context = res.context,
                           !.discovery = IF PodFound(res.context) THEN "found" ELSE "missing",
                           !.stage = "enrich"]]
  /\ UNCHANGED <<alerts, now, reqs, wpc, wait, batch, lastpass, writes, cluster, call,
               engine, manager>>

Remove(seq, k) == [i \in 1..(Len(seq) - 1) |-> IF i < k THEN seq[i] ELSE seq[i + 1]]

PassSummary(t, final, final_ok, tbl) ==
  [event |-> t.event, podtag |-> t.podtag, discovery |-> t.discovery, exc |-> t.exc,
   flip_ok |-> t.flip_ok, final |-> final, final_ok |-> final_ok,
   escaped |-> t.stage = "loop",
   status |-> StatusOf(tbl, t.alert_hash)]

\* await db.update_alert_status(alert_hash, AlertStatus.ENRICHED,
\* enriched_data=enriched_data), after which the call returns; an exception
\* of the write is caught by the inner except branch.
TaskWriteEnriched(k) ==
  /\ k \in 1..Len(tasks)
  /\ tasks[k].stage = "enrich"
  /\ \E ok \in BOOLEAN :
       LET t == tasks[k]
           enriched_data == [event_details |-> t.event_details,
                             k8s_context |-> t.k8s_context,
                             processing_time |-> now,
                             enrichment_status |-> "success"]
           tbl == update_alert_status(alerts, t.alert_hash, ENRICHED, None,
                                      enriched_data, now, ok)
       IN /\ alerts' = tbl
          /\ writes' = Counted(writes, alerts, t.alert_hash, ENRICHED, ok)
          /\ IF update_alert_status_raises(ok)
             THEN /\ tasks' = [tasks EXCEPT ![k] =
                                 [t EXCEPT !.stage = "fail_exc", !.exc = TRUE]]
                  /\ UNCHANGED lastpass
             ELSE /\ tasks' = Remove(tasks, k)
                  /\ lastpass' = [lastpass EXCEPT ![t.alert_hash] =
                       PassSummary(t, ENRICHED, ok /\ HasRow(alerts, t.alert_hash), tbl)]
  /\ UNCHANGED <<now, reqs, wpc, wait, batch, cluster, call,
               engine, manager>>

\* await db.update_alert_status(alert_hash, AlertStatus.FAILED) -- the call
\* of every position of FailStages, none of which passes an error_message.
\* When the write returns, the call is over and the for loop goes on.  An
\* exception of the write is caught one level further out; one that leaves
\* the for loop's except branch ends the for loop and sends the worker to the
\* while loop's except branch and its longer sleep.
TaskWriteFailed(k) ==
  /\ k \in 1..Len(tasks)
  /\ tasks[k].stage \in FailStages
  /\ \E ok \in BOOLEAN :
       LET t == tasks[k]
           tbl == update_alert_status(alerts, t.alert_hash, FAILED, None, Null, now, ok)
       IN /\ alerts' = tbl
          /\ writes' = Counted(writes, alerts, t.alert_hash, FAILED, ok)
          /\ IF ~update_alert_status_raises(ok)
             THEN /\ tasks' = Remove(tasks, k)
                  /\ lastpass' = [lastpass EXCEPT ![t.alert_hash] =
                       PassSummary(t, FAILED, ok /\ HasRow(alerts, t.alert_hash), tbl)]
                  /\ UNCHANGED <<wpc, wait, batch>>
             ELSE IF t.stage # "loop"
             THEN /\ tasks' = [tasks EXCEPT ![k] =
                                 [t EXCEPT !.stage = CaughtAt(t.stage), !.exc = TRUE]]
                  /\ UNCHANGED <<lastpass, wpc, wait, batch>>
             ELSE /\ tasks' = Remove(tasks, k)
                  /\ lastpass' = [lastpass EXCEPT ![t.alert_hash] =
                       PassSummary(t, FAILED, FALSE, tbl)]
                  /\ batch' = <<>>
                  /\ wpc' = "sleep"
                  /\ wait' = BackoffSeconds
  /\ UNCHANGED <<now, reqs, cluster, call,
               engine, manager>>

\* ---------------------------------------------------------- the system
Next ==
  \/ \E payload \in Payloads : WebhookReceive(payload)
  \/ \E r \in 1..MaxRequests : WebhookCheck(r)
  \/ \E r \in 1..MaxRequests : WebhookSave(r)
  \/ QueueStatus
  \/ \E days \in CleanupDays : Cleanup(days)
  \/ Tick
  \/ WorkerPoll
  \/ WorkerDispatch
  \/ WorkerBatchDone
  \/ WorkerWake
  \/ \E k \in 1..1 : TaskMarkProcessing(k)
  \/ \E k \in 1..1 : TaskGetEvent(k)
  \/ \E k \in 1..1 : TaskDiscover(k)
  \/ \E k \in 1..1 : TaskWriteEnriched(k)
  \/ \E k \in 1..1 : TaskWriteFailed(k)

Spec == Init /\ [][Next]_vars

\* The steps of the worker coroutine and of the call it awaits.  The event
\* loop resumes the coroutine whenever the call it awaits has returned, and
\* every call it awaits (store, events API, discovery, sleep) returns.
WorkerNext ==
  \/ WorkerPoll
  \/ WorkerDispatch
  \/ WorkerBatchDone
  \/ WorkerWake
  \/ \E k \in 1..1 : TaskMarkProcessing(k)
  \/ \E k \in 1..1 : TaskGetEvent(k)
  \/ \E k \in 1..1 : TaskDiscover(k)
  \/ \E k \in 1..1 : TaskWriteEnriched(k)
  \/ \E k \in 1..1 : TaskWriteFailed(k)

LiveSpec == Init /\ [][Next]_vars /\ WF_vars(WorkerNext)

\* ------------------------------------------- the store, called directly
\* The store's operations applied in any order with any arguments, as a
\* caller other than the worker may apply them.
MaxWrites == 2

StoreErrors == {None, "boom"}
StoreDocs == {Null, [enrichment_status |-> "success"]}

StoreSave(payload) ==
  /\ \E ok \in BOOLEAN :
       alerts' = save_alert(alerts, payload, _generate_alert_hash(payload), now, ok).table
  /\ UNCHANGED <<now, reqs, wpc, wait, batch, tasks, lastpass, writes, cluster, call,
               engine, manager>>

StoreUpdate(h, status, error_message, enriched_data) ==
  /\ status # RESOLVED => writes[h] < MaxWrites
  /\ \E ok \in BOOLEAN :
       /\ alerts' = update_alert_status(alerts, h, status, error_message,
                                        enriched_data, now, ok)
       /\ writes' = Counted(writes, alerts, h, status, ok)
  /\ UNCHANGED <<now, reqs, wpc, wait, batch, tasks, lastpass, cluster, call,
               engine, manager>>

StoreNext ==
  \/ \E payload \in Payloads : StoreSave(payload)
  \/ \E h \in Hashes, status \in AlertStatus, e \in StoreErrors, d \in StoreDocs :
        StoreUpdate(h, status, e, d)

StoreSpec == Init /\ [][StoreNext]_vars

\* ------------------- get_pending_alerts and cleanup_old_alerts, called directly
\* The operations applied with any argument to a table of alerts saved at
\* different times, some of which the worker has taken since.
MaxRows == 3
MaxAge == 3
MaxLimit == 3

QueryIds == <<"i1", "i2", "i3", "i4", "i5">>
QueryStatuses == {RECEIVED, PROCESSING, FAILED}

QueryPayload(k) == Payload("7", "a1", QueryIds[k], "", "")

\* The row of the k-th alert, saved at minute created and brought to status
\* by the status writes of a pass.
QueryRow(k, created, status) ==
  LET r0 == NewRow(QueryPayload(k), _generate_alert_hash(QueryPayload(k)), created)
      r1 == UpdatedRow(r0, PROCESSING, None, Null, created)
      r2 == UpdatedRow(r1, FAILED, None, Null, created)
  IN IF status = RECEIVED THEN r0 ELSE IF status = PROCESSING THEN r1 ELSE r2

\* Tables in insertion order: created_at never decreases along the rows.
QueryTables ==
  UNION {{[k \in 1..n |-> QueryRow(k, c[k], st[k])] :
            c \in {d \in [1..n -> 0..MaxAge] : \A a, b \in 1..n : a < b => d[a] <= d[b]},
            st \in [1..n -> QueryStatuses]} :
         n \in 0..MaxRows}

QueryInit ==
  /\ alerts \in QueryTables
  /\ now \in 0..(MaxAge + 2)
  /\ \A i \in 1..Len(alerts) : alerts[i].created_at <= now
  /\ reqs = <<>>
  /\ wpc = "poll"
  /\ wait = 0
  /\ batch = <<>>
  /\ tasks = <<>>
  /\ lastpass = [h \in Hashes |-> Null]
  /\ writes = [h \in Hashes |-> 0]
  /\ cluster = Null
  /\ call = Null
  /\ engine = NewEngine
  /\ manager = ManagerClass

\* await db.get_pending_alerts(limit)
QueryPending(limit) ==
  /\ \E ok \in BOOLEAN :
       \E pending \in get_pending_alerts(alerts, limit, now, ok) :
          call' = [op |-> "get_pending_alerts", limit |-> limit, ok |-> ok,
                   result |-> pending]
  /\ UNCHANGED <<alerts, now, reqs, wpc, wait, batch, tasks, lastpass, writes, cluster,
               engine, manager>>

\* await db.cleanup_old_alerts(days)
QueryCleanup(days) ==
  /\ \E ok \in BOOLEAN :
       LET res == cleanup_old_alerts(alerts, days, now, ok)
       IN /\ alerts' = res.table
          /\ call' = [op |-> "cleanup_old_alerts", days |-> days, ok |-> ok,
                      before |-> alerts, deleted |-> res.deleted]
  /\ UNCHANGED <<now, reqs, wpc, wait, batch, tasks, lastpass, writes, cluster,
               engine, manager>>

QueryNext ==
  \/ \E limit \in 0..MaxLimit : QueryPending(limit)
  \/ \E days \in CleanupDays : QueryCleanup(days)

QuerySpec == QueryInit /\ [][QueryNext]_vars

\* ------------------------------------------- get_k8s_context, called directly
\* The arguments the worker can pass: tag values or None.
NamespaceArguments == {None, "default", "ops-x"}
PodNameArguments == {None, "p1"}
DeploymentArguments == {None, "api"}

DiscoveryInit ==
  /\ alerts = <<>>
  /\ now = 0
  /\ reqs = <<>>
  /\ wpc = "poll"
  /\ wait = 0
  /\ batch = <<>>
  /\ tasks = <<>>
  /\ lastpass = [h \in Hashes |-> Null]
  /\ writes = [h \in Hashes |-> 0]
  /\ cluster \in Clusters
  /\ call = Null
  /\ engine = NewEngine
  /\ manager = ManagerClass

\* await get_k8s_context(namespace, pod_name, deployment_name)
Discover(namespace, pod_name, deployment_name) ==
  /\ \E res \in {get_k8s_context(namespace, pod_name, deployment_name, cluster)} :
       call' = [op |-> "get_k8s_context", namespace |-> namespace,
                pod_name |-> pod_name, deployment_name |-> deployment_name,
                raised |-> res.raised, context |-> res.context]
  /\ UNCHANGED <<alerts, now, reqs, wpc, wait, batch, tasks, lastpass, writes, cluster,
               engine, manager>>

\* get_k8s_context(namespace, pod_name, deployment_name) of src/context/k8s.py
DiscoverByContext(namespace, pod_name, deployment_name) ==
  /\ \E res \in {context_get_k8s_context(namespace, pod_name, deployment_name,
                                          cluster)} :
       call' = [op |-> "context.get_k8s_context", namespace |-> namespace,
                pod_name |-> pod_name, deployment_name |-> deployment_name,
                raised |-> res.raised, context |-> res.context]
  /\ UNCHANGED <<alerts, now, reqs, wpc, wait, batch, tasks, lastpass, writes, cluster,
               engine, manager>>

\* The discovery reads the cluster and keeps nothing from one call to the
\* next: a behaviour makes one call.
DiscoveryNext ==
  /\ call = Null
  /\ \E namespace \in NamespaceArguments, pod_name \in PodNameArguments,
        deployment_name \in DeploymentArguments :
       Discover(namespace, pod_name, deployment_name)

DiscoverySpec == DiscoveryInit /\ [][DiscoveryNext]_vars

\* The same calls made to src/context/k8s.py, on the clusters of the search.
ContextInit ==
  /\ alerts = <<>>
  /\ now = 0
  /\ reqs = <<>>
  /\ wpc = "poll"
  /\ wait = 0
  /\ batch = <<>>
  /\ tasks = <<>>
  /\ lastpass = [h \in Hashes |-> Null]
  /\ writes = [h \in Hashes |-> 0]
  /\ cluster \in {Cluster(FALSE, <<>>, <<>>, <<>>, <<>>, <<>>, {})} \cup SearchClusters
  /\ call = Null
  /\ engine = NewEngine
  /\ manager = ManagerClass

ContextNext ==
  /\ call = Null
  /\ \E namespace \in NamespaceArguments, pod_name \in PodNameArguments,
        deployment_name \in DeploymentArguments :
       DiscoverByContext(namespace, pod_name, deployment_name)

ContextSpec == ContextInit /\ [][ContextNext]_vars

\* --------------------------------------- the response parser, called directly
\* Sequences over S of length at most n.
RECURSIVE SeqsUpTo(_, _)
SeqsUpTo(S, n) ==
  IF n = 0 THEN {<<>>}
  ELSE LET shorter == SeqsUpTo(S, n - 1)
       IN shorter \cup {Append(s, x) : s \in shorter, x \in S}

\* Solution texts and commands handed to validate_solution_safety.
MaxCommands == 2

SolutionTexts ==
  {<<>>,
   <<"restart", "the", "pod">>,
   <<"Delete", "the", "pod">>,
   <<"information">>,
   <<"confirm", "-rf">>,
   <<"rm", NL, "-rf">>,
   <<"DROP", "table", "x">>}

SafetyCommands ==
  {<<"kubectl", "get", "pods">>,
   <<"kubectl", "delete", "pod", "foo">>,
   <<"Kubectl", "Delete", "pod", "foo">>,
   <<"kubectl", "remove", "x">>,
   <<"mykubectl", "remove", "x">>,
   <<"sudo", "kubectl", "delete", "pod", "foo">>,
   <<"rm", "-rf", "/tmp">>,
   <<"helm", "upgrade", "x">>}

\* Contents handed to _determine_priority.
MaxPriorityWords == 3

PriorityWords ==
  {"critical", "URGENT", "downtime", "production", "minor", "Cosmetic",
   "low", "impact", "ok", NL}

\* Contents handed to _extract_commands: the lines below in every order, and
\* lists of kubectl commands longer than the limit, in a block or not, the
\* first command written up to three times.
MaxLines == 3
MaxDistinct == 12
MaxRepeats == 2

CommandLines ==
  {<<>>,
   <<Fence>>,
   <<"[fence]bash">>,
   <<"#", "x">>,
   <<"kubectl", "get", "pods">>,
   <<Indent, "kubectl", "get", "pods">>,
   <<"sudo", "kubectl", "get", "pods">>,
   <<"Run", "kubectl">>,
   <<"helm", "upgrade", "x">>,
   <<"rm", "-rf", "/tmp">>}

\* '\n'.join(lines)
RECURSIVE Joined(_)
Joined(lines) ==
  IF lines = <<>> THEN <<>>
  ELSE IF Len(lines) = 1 THEN lines[1]
  ELSE lines[1] \o <<NL>> \o Joined(Tail(lines))

LongTexts ==
  {Joined((IF fenced THEN << <<"[fence]bash">> >> ELSE <<>>)
            \o [i \in 1..repeats |-> <<"kubectl", "get", "n1">>]
            \o [i \in 1..distinct |-> <<"kubectl", "get", "n" \o ToString(i)>>]
            \o (IF fenced THEN << <<Fence>> >> ELSE <<>>)) :
     distinct \in 0..MaxDistinct, repeats \in 0..MaxRepeats, fenced \in BOOLEAN}

CommandTexts == {Joined(lines) : lines \in SeqsUpTo(CommandLines, MaxLines)} \cup LongTexts

\* Responses handed to parse_llm_response: the lines below in every order.
MaxResponseLines == 3

ResponseLines ==
  {<<>>,
   <<"hello", "world">>,
   <<"**ANALYSIS**">>,
   <<"Estimated", "time:", "5", "minutes">>,
   <<"**Analysis**:", "disk", "full">>,
   <<"ROOT", "CAUSE:", "disk">>,
   <<"**SOLUTION**:", "restart", "the", "pod">>,
   <<"the", "resolution", "time", "5", "minutes">>,
   <<"Prévention:", "cleanup">>,
   <<"kubectl", "delete", "pod", "foo">>,
   <<"[fence]bash">>,
   <<Fence>>}

ResponseTexts == {Joined(lines) : lines \in SeqsUpTo(ResponseLines, MaxResponseLines)}

ParserInit ==
  /\ alerts = <<>>
  /\ now = 0
  /\ reqs = <<>>
  /\ wpc = "poll"
  /\ wait = 0
  /\ batch = <<>>
  /\ tasks = <<>>
  /\ lastpass = [h \in Hashes |-> Null]
  /\ writes = [h \in Hashes |-> 0]
  /\ cluster = Null
  /\ call = Null
  /\ engine = NewEngine
  /\ manager = ManagerClass

\* validate_solution_safety(solution_text, commands)
ValidateSafety(solution_text, commands) ==
  /\ LET res == validate_solution_safety(solution_text, commands)
     IN call' = [op |-> "validate_solution_safety", solution_text |-> solution_text,
                 commands |-> commands, raised |-> res.raised, result |-> res.result]
  /\ UNCHANGED <<alerts, now, reqs, wpc, wait, batch, tasks, lastpass, writes, cluster,
               engine, manager>>

\* _determine_priority(content)
DeterminePriority(content) ==
  /\ call' = [op |-> "_determine_priority", content |-> content,
              priority |-> _determine_priority(content)]
  /\ UNCHANGED <<alerts, now, reqs, wpc, wait, batch, tasks, lastpass, writes, cluster,
               engine, manager>>

\* The generator keeps nothing from one call to the next: a behaviour makes
\* one call.
\* _extract_commands(content)
ExtractCommands(content) ==
  /\ call' = [op |-> "_extract_commands", content |-> content,
              commands |-> _extract_commands(content)]
  /\ UNCHANGED <<alerts, now, reqs, wpc, wait, batch, tasks, lastpass, writes, cluster,
               engine, manager>>

\* parse_llm_response(llm_content)
ParseResponse(llm_content) ==
  /\ call' = [op |-> "parse_llm_response", llm_content |-> llm_content,
              solution |-> parse_llm_response(llm_content)]
  /\ UNCHANGED <<alerts, now, reqs, wpc, wait, batch, tasks, lastpass, writes, cluster,
               engine, manager>>

ParserNext ==
  \/ /\ call = Null
     /\ \E llm_content \in ResponseTexts : ParseResponse(llm_content)
  \/ /\ call = Null
     /\ \E content \in CommandTexts : ExtractCommands(content)
  \/ /\ call = Null
     /\ \E solution_text \in SolutionTexts,
           commands \in SeqsUpTo(SafetyCommands, MaxCommands) :
          ValidateSafety(solution_text, commands)
  \/ /\ call = Null
     /\ \E content \in SeqsUpTo(PriorityWords, MaxPriorityWords) :
          DeterminePriority(content)

ParserSpec == ParserInit /\ [][ParserNext]_vars

\* ------------------------------------------- the reasoning engine, called
MaxIncidents == 2

EngineLines ==
  {<<"hello", "world">>,
   <<"**Analysis**:", "disk", "full">>,
   <<"**SOLUTION**:", "restart", "the", "pod">>,
   <<"kubectl", "delete", "pod", "foo">>}

MaxEngineLines == 2

EngineTexts == {Joined(lines) : lines \in SeqsUpTo(EngineLines, MaxEngineLines)}

\* What the provider answers: nothing for a client without a key, an error,
\* or a completion with its count of tokens.
ProviderReplies ==
  {[kind |-> "unconfigured"], [kind |-> "error"]}
    \cup {[kind |-> "completion", content |-> content, total_tokens |-> 1000] :
            content \in EngineTexts}

\* The enriched alerts: the event with or without an id, its tags a list or
\* not.
EnrichedAlerts ==
  {[event_details |-> [event_id |-> event_id, tags |-> tags],
    k8s_context |-> [pod |-> [name |-> "p1"], deployment |-> Null, events |-> <<>>],
    processing_time |-> 1,
    enrichment_status |-> "success"] :
     event_id \in {"7", None}, tags \in {Tags(<<"pod_name:p1">>), NoTags}}

ProcessingTimes == {1, 3}

\* _assess_risk_level(parsed_solution)
AssessRisk(solution, commands) ==
  /\ call' = [op |-> "_assess_risk_level", solution |-> solution, commands |-> commands,
              risk_level |-> _assess_risk_level([solution |-> solution,
                                                 commands |-> commands])]
  /\ UNCHANGED <<alerts, now, reqs, wpc, wait, batch, tasks, lastpass, writes, cluster,
               engine, manager>>

\* _parse_llm_response(llm_response, incident_id)
ParseLLMResponse(llm_response, incident_id) ==
  /\ call' = [op |-> "_parse_llm_response", llm_response |-> llm_response,
              incident_analysis |-> _parse_llm_response(llm_response, incident_id)]
  /\ UNCHANGED <<alerts, now, reqs, wpc, wait, batch, tasks, lastpass, writes, cluster,
               engine, manager>>

\* analyze_incident(enriched_data), on the engine as the calls before left it.
AnalyzeIncident(enriched_data, reply, start_time, processing_time) ==
  /\ engine.total_incidents_processed < MaxIncidents
  /\ \E res \in {analyze_incident(engine, enriched_data, reply, start_time,
                                   processing_time)} :
        /\ call' = [op |-> "analyze_incident", enriched_data |-> enriched_data,
                    reply |-> reply, raised |-> res.raised, exc |-> res.exc,
                    result |-> res.result]
        /\ engine' = res.self
  /\ UNCHANGED <<alerts, now, reqs, wpc, wait, batch, tasks, lastpass, writes, cluster,
               manager>>

EngineInit ==
  /\ alerts = <<>>
  /\ now = 0
  /\ reqs = <<>>
  /\ wpc = "poll"
  /\ wait = 0
  /\ batch = <<>>
  /\ tasks = <<>>
  /\ lastpass = [h \in Hashes |-> Null]
  /\ writes = [h \in Hashes |-> 0]
  /\ cluster = Null
  /\ call = Null
  /\ engine = NewEngine
  /\ manager = ManagerClass

EngineNext ==
  \/ /\ call = Null
     /\ \E solution \in SolutionTexts, commands \in SeqsUpTo(SafetyCommands, MaxCommands) :
          AssessRisk(solution, commands)
  \/ /\ call = Null
     /\ \E reply \in ProviderReplies :
          /\ reply.kind = "completion"
          /\ ParseLLMResponse(generate_solution(reply).value, "7")
  \/ /\ call # Null => call.op = "analyze_incident"
     /\ \E enriched_data \in EnrichedAlerts, reply \in ProviderReplies,
           processing_time \in ProcessingTimes :
          AnalyzeIncident(enriched_data, reply, now, processing_time)

EngineSpec == EngineInit /\ [][EngineNext]_vars

\* ---------------------------------------- K8sClientManager, by its threads
besides_manager ==
  <<alerts, now, reqs, wpc, wait, batch, tasks, lastpass, writes, cluster, call,
    engine>>

\* A thread calls K8sClientManager().
ManagerNew(t) ==
  /\ manager.threads[t].pc = "idle"
  /\ manager.threads[t].calls < MaxCalls
  /\ manager' = [At(manager, t, "n17") EXCEPT !.threads[t].calls = @ + 1]
  /\ UNCHANGED besides_manager

\* __new__, line 17: if cls._instance is None
ManagerNewTest(t) ==
  /\ manager.threads[t].pc = "n17"
  /\ manager' = At(manager, t, IF manager._instance = 0 THEN "n18" ELSE "n21")
  /\ UNCHANGED besides_manager

\* line 18: with cls._lock
ManagerNewLock(t) ==
  /\ manager.threads[t].pc = "n18"
  /\ manager._lock = 0
  /\ manager' = Acquire(manager, t, "n19")
  /\ UNCHANGED besides_manager

\* lines 19-20: the test under the lock, the creation of the instance and
\* the exit of the with block.
ManagerNewCreate(t) ==
  /\ manager.threads[t].pc = "n19"
  /\ manager' =
       IF manager._instance = 0
       THEN [At(manager, t, "n20") EXCEPT
               !.instances = Append(@, NewInstance),
               !._instance = Len(manager.instances) + 1]
       ELSE Release(manager, t, "n21")
  /\ UNCHANGED besides_manager

ManagerNewUnlock(t) ==
  /\ manager.threads[t].pc = "n20"
  /\ manager' = Release(manager, t, "n21")
  /\ UNCHANGED besides_manager

\* line 21: return cls._instance
ManagerNewReturn(t) ==
  /\ manager.threads[t].pc = "n21"
  /\ manager' = [At(manager, t, "idle") EXCEPT !.threads[t].self = manager._instance]
  /\ UNCHANGED besides_manager

\* A thread calls get_clients() on the manager it holds.
ManagerGet(t) ==
  /\ manager.threads[t].pc = "idle"
  /\ manager.threads[t].self # 0
  /\ manager.threads[t].calls < MaxCalls
  /\ manager' = [At(manager, t, "g41a") EXCEPT
                   !.threads[t].calls = @ + 1,
                   !.threads[t].returned = Null,
                   !.threads[t].raised = FALSE]
  /\ UNCHANGED besides_manager

\* line 41, outside the lock: the read of _v1_client, then, when that is not
\* None, the read of _apps_v1_client.
ManagerGetTestV1(t) ==
  /\ manager.threads[t].pc = "g41a"
  /\ manager' = At(manager, t,
                   IF manager.instances[manager.threads[t].self]._v1_client = 0
                   THEN "g42" ELSE "g41b")
  /\ UNCHANGED besides_manager

ManagerGetTestApps(t) ==
  /\ manager.threads[t].pc = "g41b"
  /\ manager' = At(manager, t,
                   IF manager.instances[manager.threads[t].self]._apps_v1_client = 0
                   THEN "g42" ELSE "g49a")
  /\ UNCHANGED besides_manager

\* line 42: with self._lock
ManagerGetLock(t) ==
  /\ manager.threads[t].pc = "g42"
  /\ manager._lock = 0
  /\ manager' = Acquire(manager, t, "g43")
  /\ UNCHANGED besides_manager

\* line 43: the test under the lock; nothing else writes the attributes
\* while the lock is held.
ManagerGetTestLocked(t) ==
  /\ manager.threads[t].pc = "g43"
  /\ manager' = IF clients_missing(manager.instances[manager.threads[t].self])
                THEN At(manager, t, "g44")
                ELSE Release(manager, t, "g49a")
  /\ UNCHANGED besides_manager

\* line 44, _load_config_once: nothing when _config_loaded is set; otherwise
\* the configuration is loaded from the kubeconfig or from the cluster and
\* the flag set, or both loads fail and the exception leaves get_clients
\* through the with block.
ManagerGetLoad(t) ==
  /\ manager.threads[t].pc = "g44"
  /\ LET self == manager.threads[t].self
     IN IF manager.instances[self]._config_loaded
        THEN manager' = At(manager, t, "g45")
        ELSE \E loaded \in BOOLEAN :
               manager' =
                 IF loaded
                 THEN [At(manager, t, "g45") EXCEPT
                         !.instances[self]._config_loaded = TRUE,
                         !.loads = @ + 1]
                 ELSE [Release(manager, t, "idle") EXCEPT !.threads[t].raised = TRUE]
  /\ UNCHANGED besides_manager

\* line 45: self._v1_client = client.CoreV1Api()
ManagerGetBuildV1(t) ==
  /\ manager.threads[t].pc = "g45"
  /\ manager' = [At(manager, t, "g46") EXCEPT
                   !.instances[manager.threads[t].self]._v1_client = manager.v1_built + 1,
                   !.v1_built = @ + 1]
  /\ UNCHANGED besides_manager

\* line 46: self._apps_v1_client = client.AppsV1Api()
ManagerGetBuildApps(t) ==
  /\ manager.threads[t].pc = "g46"
  /\ manager' = [At(manager, t, "g47") EXCEPT
                   !.instances[manager.threads[t].self]._apps_v1_client
                      = manager.apps_built + 1,
                   !.apps_built = @ + 1]
  /\ UNCHANGED besides_manager

ManagerGetUnlock(t) ==
  /\ manager.threads[t].pc = "g47"
  /\ manager' = Release(manager, t, "g49a")
  /\ UNCHANGED besides_manager

\* line 49: return self._v1_client, self._apps_v1_client -- two reads.
ManagerGetReadV1(t) ==
  /\ manager.threads[t].pc = "g49a"
  /\ manager' = [At(manager, t, "g49b") EXCEPT
                   !.threads[t].returned =
                      <<manager.instances[manager.threads[t].self]._v1_client>>]
  /\ UNCHANGED besides_manager

ManagerGetReturn(t) ==
  /\ manager.threads[t].pc = "g49b"
  /\ manager' = [At(manager, t, "idle") EXCEPT
                   !.threads[t].returned =
                      Append(@, manager.instances[manager.threads[t].self]._apps_v1_client)]
  /\ UNCHANGED besides_manager

\* reset_clients, called by a thread between two of its calls.
ManagerReset(t) ==
  /\ manager.threads[t].pc = "idle"
  /\ manager.threads[t].self # 0
  /\ manager.resets < MaxResets
  /\ manager' = [At(manager, t, "r53") EXCEPT !.resets = @ + 1]
  /\ UNCHANGED besides_manager

\* line 53: with self._lock
ManagerResetLock(t) ==
  /\ manager.threads[t].pc = "r53"
  /\ manager._lock = 0
  /\ manager' = Acquire(manager, t, "r54")
  /\ UNCHANGED besides_manager

\* lines 54-56: the three assignments, one at a time, and the exit of the
\* with block.
ManagerResetV1(t) ==
  /\ manager.threads[t].pc = "r54"
  /\ manager' = [At(manager, t, "r55") EXCEPT
                   !.instances[manager.threads[t].self]._v1_client = 0]
  /\ UNCHANGED besides_manager

ManagerResetApps(t) ==
  /\ manager.threads[t].pc = "r55"
  /\ manager' = [At(manager, t, "r56") EXCEPT
                   !.instances[manager.threads[t].self]._apps_v1_client = 0]
  /\ UNCHANGED besides_manager

ManagerResetConfig(t) ==
  /\ manager.threads[t].pc = "r56"
  /\ manager' = [Release(manager, t, "idle") EXCEPT
                   !.instances[manager.threads[t].self]._config_loaded = FALSE]
  /\ UNCHANGED besides_manager

ManagerInit ==
  /\ alerts = <<>>
  /\ now = 0
  /\ reqs = <<>>
  /\ wpc = "poll"
  /\ wait = 0
  /\ batch = <<>>
  /\ tasks = <<>>
  /\ lastpass = [h \in Hashes |-> Null]
  /\ writes = [h \in Hashes |-> 0]
  /\ cluster = Null
  /\ call = Null
  /\ engine = NewEngine
  /\ manager = ManagerClass

ManagerNext ==
  \/ \E t \in Threads : ManagerNew(t)
  \/ \E t \in Threads : ManagerNewTest(t)
  \/ \E t \in Threads : ManagerNewLock(t)
  \/ \E t \in Threads : ManagerNewCreate(t)
  \/ \E t \in Threads : ManagerNewUnlock(t)
  \/ \E t \in Threads : ManagerNewReturn(t)
  \/ \E t \in Threads : ManagerGet(t)
  \/ \E t \in Threads : ManagerGetTestV1(t)
  \/ \E t \in Threads : ManagerGetTestApps(t)
  \/ \E t \in Threads : ManagerGetLock(t)
  \/ \E t \in Threads : ManagerGetTestLocked(t)
  \/ \E t \in Threads : ManagerGetLoad(t)
  \/ \E t \in Threads : ManagerGetBuildV1(t)
  \/ \E t \in Threads : ManagerGetBuildApps(t)
  \/ \E t \in Threads : ManagerGetUnlock(t)
  \/ \E t \in Threads : ManagerGetReadV1(t)
  \/ \E t \in Threads : ManagerGetReturn(t)
  \/ \E t \in Threads : ManagerReset(t)
  \/ \E t \in Threads : ManagerResetLock(t)
  \/ \E t \in Threads : ManagerResetV1(t)
  \/ \E t \in Threads : ManagerResetApps(t)
  \/ \E t \in Threads : ManagerResetConfig(t)

ManagerSpec == ManagerInit /\ [][ManagerNext]_vars

\* =================================================================== claims
Terminal == {RESOLVED, FAILED}

RowOf(tbl, h) == tbl[CHOOSE i \in RowsOf(tbl, h) : TRUE]

\* The hashes the worker holds: fetched and waiting in the batch, or in a pass.
Held(b, t) == {b[i].alert_hash : i \in 1..Len(b)} \cup {t[i].alert_hash : i \in 1..Len(t)}

\* C1: the store never holds two rows of one alert hash, and a save that
\* meets a row of its hash changes nothing in the table and surfaces no
\* error: unless the backend itself failed, the submission is accepted.
C1_OneRowPerHash ==
  [][ /\ \A h \in Hashes : Cardinality(RowsOf(alerts', h)) <= 1
      /\ \A r \in 1..Len(reqs) :
            (reqs[r].pc = "save" /\ reqs'[r].pc = "done"
               /\ HasRow(alerts, reqs[r].alert_hash))
            => /\ alerts' = alerts
               /\ reqs'[r].save # "failed" => reqs'[r].resp = "accepted" ]_vars

\* Two submissions of one hash both passed the check before either saved; the
\* second save met the row of the first and was accepted, one row stands.
C1_Witness ==
  \E r \in 1..Len(reqs) :
     /\ reqs[r].raced
     /\ reqs[r].save = "conflict"
     /\ reqs[r].resp = "accepted"
     /\ Cardinality(RowsOf(alerts, reqs[r].alert_hash)) = 1

\* C2 (as claimed): a submission that arrives after an accepted submission
\* of its hash was saved is answered "duplicate" and does not call save.
C2_LaterIsDuplicate ==
  \A r \in 1..Len(reqs) :
     (reqs[r].later /\ reqs[r].pc = "done")
     => reqs[r].resp = "duplicate" /\ reqs[r].save = "none"

\* C3 (as claimed), taken for the passes all of whose status writes the store
\* applied: a finished pass leaves the alert RESOLVED or FAILED.
C3_PassEndsTerminal ==
  \A h \in Hashes :
     (lastpass[h] # Null /\ lastpass[h].flip_ok /\ lastpass[h].final_ok)
     => lastpass[h].status \in Terminal

Rank(status) ==
  IF status = RECEIVED THEN 0
  ELSE IF status = PROCESSING THEN 1
  ELSE IF status \in {ENRICHED, SOLUTION_PROPOSED} THEN 2
  ELSE 3

\* C4: no step moves the status of an alert backwards along RECEIVED ->
\* PROCESSING -> ENRICHED -> RESOLVED/FAILED or out of RESOLVED or FAILED, and
\* no step lowers its retry_count.
C4_ForwardOnly ==
  [][ \A h \in Hashes :
         (HasRow(alerts, h) /\ HasRow(alerts', h))
         => /\ Rank(RowOf(alerts', h).status) >= Rank(RowOf(alerts, h).status)
            /\ RowOf(alerts, h).status \in Terminal
                 => RowOf(alerts', h).status = RowOf(alerts, h).status
            /\ RowOf(alerts', h).retry_count >= RowOf(alerts, h).retry_count ]_vars

\* An alert went RECEIVED -> PROCESSING -> FAILED, both writes applied.
C4_Witness ==
  \E h \in Hashes :
     /\ HasRow(alerts, h)
     /\ RowOf(alerts, h).status = FAILED
     /\ RowOf(alerts, h).retry_count = 2

\* C5: the retry_count of every row equals the number of applied status
\* writes to it whose status was not RESOLVED (0 at insert); RESOLVED writes
\* do not count.
C5_RetryCountsWrites ==
  \A i \in 1..Len(alerts) : alerts[i].retry_count = writes[alerts[i].alert_hash]

\* A row took two counted writes and a RESOLVED write.
C5_Witness ==
  \E i \in 1..Len(alerts) :
     /\ alerts[i].processed_at # Null
     /\ alerts[i].retry_count = 2

\* What a get_pending_alerts call answered by the backend now returns.
PendingNow ==
  UNION {{p[i].alert_hash : i \in 1..Len(p)} :
           p \in get_pending_alerts(alerts, DefaultLimit, now, TRUE)}

\* An alert is in a pass from the PROCESSING write of its task on.
InPass(k) == tasks[k].stage # "start"

C7_FailedStays ==
  [][ \A h \in Hashes :
         StatusOf(alerts, h) = FAILED
         => /\ StatusOf(alerts', h) \in {FAILED, None}
            /\ h \notin Held(batch', tasks') ]_vars

\* A FAILED alert was submitted again, its save met the FAILED row, the
\* worker has polled since, and it is still FAILED.
C7_Witness ==
  \E r \in 1..Len(reqs) :
     /\ reqs[r].pc = "done"
     /\ reqs[r].met = FAILED
     /\ StatusOf(alerts, reqs[r].alert_hash) = FAILED
     /\ wpc = "sleep"

\* C8 (as claimed), taken for the passes whose FAILED write the store
\* applied: after an exception in a pass the alert is FAILED with a non-empty
\* error_message.
C8_ExceptionRecorded ==
  \A h \in Hashes :
     (lastpass[h] # Null /\ lastpass[h].exc /\ lastpass[h].final_ok)
     => /\ RowOf(alerts, h).status = FAILED
        /\ RowOf(alerts, h).error_message \notin {None, ""}

\* The case of C9: the event was not retrieved, or its tags hold no pod_name tag.
NoPodIdentity(pass) ==
  \/ pass.event \in {"raised", "notfound", "noid"}
  \/ pass.event = "ok" /\ ~pass.podtag

C10_EnrichedMeansPodFound ==
  \A i \in 1..Len(alerts) :
     alerts[i].status = ENRICHED
     => /\ alerts[i].enriched_data # Null
        /\ PodFound(json_loads(alerts[i].enriched_data).k8s_context)

\* The hashes of the alerts of a list of alerts or of calls.
HashesOf(list) == {list[i].alert_hash : i \in 1..Len(list)}

\* C11: no exception leaves a call of _process_alert_async (no call reaches
\* the for loop's except branch, no pass ends escaped); the fetched batch is
\* only ever shortened by starting the call of its first alert, whatever the
\* previous call met; every fetched alert gets its call; and the worker polls
\* again and again, forever.
C11_WorkerSurvives ==
  /\ [](\A k \in 1..Len(tasks) : tasks[k].stage # "loop")
  /\ [](\A h \in Hashes : lastpass[h] # Null => ~lastpass[h].escaped)
  /\ [][ batch' # batch
         => \/ wpc = "poll"
            \/ /\ batch # <<>>
               /\ batch' = Tail(batch)
               /\ HashesOf(tasks') = {Head(batch).alert_hash} ]_vars
  /\ \A h \in Hashes : (h \in HashesOf(batch)) ~> (h \in HashesOf(tasks))
  /\ []<>(wpc = "poll")

\* The first alert of a batch of two met an exception and its FAILED write
\* failed as well; the call of the second alert is under way.
C11_Witness ==
  \E k \in 1..Len(tasks), h \in Hashes :
     /\ h # tasks[k].alert_hash
     /\ lastpass[h] # Null
     /\ lastpass[h].exc
     /\ ~lastpass[h].final_ok
     /\ wpc = "run"

\* What every store operation other than save_alert does when the backend
\* fails: its default answer, the table as it was, nothing raised.
FailsToDefault(tbl, t) ==
  /\ \A h \in Hashes : is_alert_received(tbl, h, FALSE) = FALSE
  /\ \A h \in Hashes, st \in AlertStatus, e \in StoreErrors, d \in StoreDocs :
        update_alert_status(tbl, h, st, e, d, t, FALSE) = tbl
  /\ ~update_alert_status_raises(FALSE)
  /\ get_pending_alerts(tbl, DefaultLimit, t, FALSE) = {<<>>}
  /\ ~get_pending_alerts_raises(FALSE)
  /\ get_alert_statistics(tbl, FALSE) = {[alert_counts |-> <<>>, recent_alerts |-> <<>>]}
  /\ \A days \in CleanupDays :
        cleanup_old_alerts(tbl, days, t, FALSE) = [table |-> tbl, deleted |-> 0]

\* C12 (as claimed): on a backend failure every store operation, save_alert
\* included, answers its default and raises nothing: a submission whose save
\* failed is not answered with an error.
C12_AllFailToDefault ==
  /\ FailsToDefault(alerts, now)
  /\ \A p \in Payloads :
        ~save_alert(alerts, p, _generate_alert_hash(p), now, FALSE).raised
  /\ \A r \in 1..Len(reqs) : reqs[r].save = "failed" => reqs[r].resp # "error"

\* C12 (amended): the same for every operation but save_alert, which leaves
\* the table as it was and raises the failure to the webhook, answered as an
\* error.
C12_AllButSaveFailToDefault ==
  /\ FailsToDefault(alerts, now)
  /\ \A p \in Payloads :
        save_alert(alerts, p, _generate_alert_hash(p), now, FALSE)
          = [table |-> alerts, raised |-> TRUE]
  /\ \A r \in 1..Len(reqs) : reqs[r].save = "failed" => reqs[r].resp = "error"

\* A save failed and was answered with an error, and a pass both of whose
\* status writes failed has returned, its alert still RECEIVED.
C12_Witness ==
  /\ \E r \in 1..Len(reqs) : reqs[r].save = "failed" /\ reqs[r].resp = "error"
  /\ \E h \in Hashes :
        /\ lastpass[h] # Null
        /\ ~lastpass[h].flip_ok
        /\ ~lastpass[h].final_ok
        /\ lastpass[h].status = RECEIVED

\* The alerts of the table that are RECEIVED and older than one minute.
Eligible == {h \in {alerts[i].alert_hash : i \in 1..Len(alerts)} :
               /\ RowOf(alerts, h).status = RECEIVED
               /\ now - RowOf(alerts, h).created_at > 1}

\* C13: a get_pending(limit) the backend answered returns min(limit, k) of
\* the k alerts that are RECEIVED and older than the grace window, each once
\* and with the payload it was saved with, in ascending order of created_at,
\* and none of the eligible alerts it leaves out is older than one it returns.
C13_PendingOldestFirst ==
  (call # Null /\ call.op = "get_pending_alerts" /\ call.ok)
  => LET res == call.result
         n == Len(res)
         got == HashesOf(res)
         k == Cardinality(Eligible)
     IN /\ n = (IF call.limit <= k THEN call.limit ELSE k)
        /\ n <= call.limit
        /\ got \subseteq Eligible
        /\ Cardinality(got) = n
        /\ \A a \in 1..n :
              json_dumps(res[a].payload) = RowOf(alerts, res[a].alert_hash).payload
        /\ \A a, b \in 1..n :
              a < b => RowOf(alerts, res[a].alert_hash).created_at
                         <= RowOf(alerts, res[b].alert_hash).created_at
        /\ \A h \in Eligible \ got : \A g \in got :
              RowOf(alerts, g).created_at <= RowOf(alerts, h).created_at

\* Three eligible alerts of three different ages and a limit of two: the two
\* oldest were returned, the youngest left out.
C13_Witness ==
  /\ call # Null
  /\ call.op = "get_pending_alerts"
  /\ call.ok
  /\ call.limit = 2
  /\ Len(call.result) = 2
  /\ Cardinality(Eligible) = 3
  /\ \A i, j \in 1..Len(alerts) : i # j => alerts[i].created_at # alerts[j].created_at

\* C14: no step changes the payload of a stored alert; a save that meets a
\* row of its hash leaves that row as it was, whatever payload it carries; and
\* no update_alert_status, with any arguments, would change the payload of a
\* row of the table.
C14_PayloadImmutable ==
  /\ [][ /\ \A h \in Hashes :
               (HasRow(alerts, h) /\ HasRow(alerts', h))
               => RowOf(alerts', h).payload = RowOf(alerts, h).payload
         /\ \A r \in 1..Len(reqs) :
               (reqs[r].pc = "save" /\ reqs'[r].pc = "done"
                  /\ HasRow(alerts, reqs[r].alert_hash))
               => RowOf(alerts', reqs[r].alert_hash) = RowOf(alerts, reqs[r].alert_hash) ]_vars
  /\ [](\A h \in Hashes, st \in AlertStatus, d \in StoreDocs :
          LET tbl == update_alert_status(alerts, h, st, None, d, now, TRUE)
          IN /\ Len(tbl) = Len(alerts)
             /\ \A i \in 1..Len(tbl) : tbl[i].payload = alerts[i].payload)

\* A submission carrying another payload of the same hash met the row after
\* the worker had enriched it: the row still holds the first payload and its
\* enrichment.
C14_Witness ==
  \E r \in 1..Len(reqs) :
     /\ reqs[r].save = "conflict"
     /\ reqs[r].met = ENRICHED
     /\ RowOf(alerts, reqs[r].alert_hash).payload # json_dumps(reqs[r].payload)
     /\ RowOf(alerts, reqs[r].alert_hash).status = ENRICHED
     /\ RowOf(alerts, reqs[r].alert_hash).enriched_data # Null

\* C15: a row is inserted with processed_at null; a step changes the
\* processed_at of a row only by writing the status RESOLVED to it, and a
\* step that leaves a row in another status leaves its processed_at as it
\* was.  Hence a non-null processed_at always stems from a RESOLVED write.
C15_ProcessedAtOnlyOnResolved ==
  [][ \A h \in Hashes :
         /\ (~HasRow(alerts, h) /\ HasRow(alerts', h))
            => RowOf(alerts', h).processed_at = Null
         /\ (HasRow(alerts, h) /\ HasRow(alerts', h))
            => /\ RowOf(alerts', h).processed_at # RowOf(alerts, h).processed_at
                  => /\ RowOf(alerts', h).status = RESOLVED
                     /\ RowOf(alerts', h).processed_at = Stamp(now')
               /\ RowOf(alerts', h).status # RESOLVED
                  => RowOf(alerts', h).processed_at = RowOf(alerts, h).processed_at ]_vars

\* A row took a RESOLVED write and then a FAILED write, which left the
\* processed_at of the first in place.
C15_Witness ==
  \E i \in 1..Len(alerts) :
     /\ alerts[i].status = FAILED
     /\ alerts[i].processed_at # Null
     /\ alerts[i].retry_count = 1

\* C16 (as claimed): a cleanup the backend answered has removed exactly the
\* RESOLVED and FAILED rows last updated longer ago than the given number of
\* days, and has returned their number.
C16_CleanupRemovesOldTerminal ==
  (call # Null /\ call.op = "cleanup_old_alerts" /\ call.ok)
  => LET Old(r) == /\ r.status \in Terminal
                   /\ r.updated_at + call.days * MinutesPerDay < now
     IN /\ alerts = SelectSeq(call.before, LAMBDA r : ~Old(r))
        /\ call.deleted = Cardinality({i \in 1..Len(call.before) : Old(call.before[i])})

\* A payload that lacks the event identifier or the alert identifier.
Lacking(payload) == payload.event_id = "" \/ payload.alert_id = ""

\* C17: a submission whose payload lacks an identifier is answered with an
\* error at once: it has no hash, never reaches the check or the save, and the
\* step that receives it leaves the store as it was.
C17_InvalidRejected ==
  /\ [](\A r \in 1..Len(reqs) :
          Lacking(reqs[r].payload)
          => /\ reqs[r].resp = "error"
             /\ reqs[r].pc = "done"
             /\ reqs[r].alert_hash = Null
             /\ reqs[r].save = "none")
  /\ [][ (Len(reqs') > Len(reqs) /\ Lacking(reqs'[Len(reqs')].payload))
         => alerts' = alerts ]_vars

\* Both kinds of lacking payload were submitted and rejected, and the store
\* is empty.
C17_Witness ==
  /\ \E r \in 1..Len(reqs) : reqs[r].payload.event_id = "" /\ reqs[r].resp = "error"
  /\ \E r \in 1..Len(reqs) : reqs[r].payload.alert_id = "" /\ reqs[r].resp = "error"
  /\ alerts = <<>>

\* C18 (as claimed): the alerts of a batch are started independently of one
\* another: while alerts of the batch wait to be started, the start of the
\* next one is possible, whether or not the call of an earlier alert of the
\* batch is still in progress.
C18_StartNotDelayed ==
  (wpc = "run" /\ batch # <<>>) => ENABLED WorkerDispatch

\* The namespaces a search of cluster c tries, in its order.
Tried(c) == SelectSeq(search_order(c.namespaces), LAMBDA ns : ns \in Range(c.namespaces))

\* The pod pod_name exists in namespace ns of c and reading it there is answered.
Readable(c, ns, pod_name) ==
  /\ \E i \in 1..Len(c.pods) : c.pods[i].name = pod_name /\ c.pods[i].namespace = ns
  /\ FaultOf(c, "read_namespaced_pod", ns) = "none"

\* A namespace-unknown discovery of a pod was called and returned.
SearchCalled ==
  /\ call # Null
  /\ call.op = "get_k8s_context"
  /\ ~TruthyStr(call.namespace)
  /\ TruthyStr(call.pod_name)
  /\ ~call.raised

\* The cluster lists its namespaces and no read of it ends with an exception
\* of the transport.
SearchAnswered ==
  /\ cluster.config
  /\ FaultOf(cluster, "list_namespace", "*") = "none"
  /\ \A f \in cluster.faults : f.kind # "transport"

\* C19: a namespace-unknown discovery on a cluster that answers, of a pod
\* that exists in some listed namespace, returns the pod without an error,
\* found_namespace is the first namespace of the search order holding it, and
\* searched_namespaces is the sequence of namespaces tried, in order and
\* without duplicates, up to and including that namespace.
C19_FoundWhereverListed ==
  (/\ call # Null
   /\ call.op = "get_k8s_context"
   /\ ~TruthyStr(call.namespace)
   /\ TruthyStr(call.pod_name)
   /\ SearchAnswered
   /\ \E i \in 1..Len(Tried(cluster)) : Readable(cluster, Tried(cluster)[i], call.pod_name))
  => LET tried == Tried(cluster)
         k == CHOOSE i \in 1..Len(tried) :
                /\ Readable(cluster, tried[i], call.pod_name)
                /\ \A j \in 1..(i - 1) : ~Readable(cluster, tried[j], call.pod_name)
         info == call.context.discovery_info
     IN /\ ~call.raised
        /\ "error" \notin DOMAIN call.context.pod
        /\ call.context.pod.name = call.pod_name
        /\ call.context.pod.namespace = tried[k]
        /\ info.found_namespace = tried[k]
        /\ info.searched_namespaces = SubSeq(tried, 1, k)
        /\ \A i, j \in 1..Len(info.searched_namespaces) :
             i # j => info.searched_namespaces[i] # info.searched_namespaces[j]

\* The pod exists only in ops-x, outside the priority list, behind two listed
\* priority namespaces and another one, and is found there.
C19_Witness ==
  /\ SearchCalled
  /\ SearchAnswered
  /\ \A i \in 1..Len(cluster.pods) : cluster.pods[i].namespace = "ops-x"
  /\ "ops-x" \notin Range(priority_namespaces)
  /\ call.context.discovery_info.found_namespace = "ops-x"
  /\ call.context.discovery_info.searched_namespaces
       = <<"default", "kube-system", "ops-y", "ops-x">>

\* The pod of cluster c named pod_name in namespace ns.
PodIn(c, ns, pod_name) ==
  c.pods[CHOOSE i \in 1..Len(c.pods) :
           c.pods[i].name = pod_name /\ c.pods[i].namespace = ns]

\* The deployments the ownership chain of a pod leads to: the owners of kind
\* Deployment of the replica sets of its namespace that own it.
ChainDeployments(c, pod) ==
  {o.name : o \in
     UNION {{x \in Range(rs.owner_references) : x.kind = "Deployment"} :
            rs \in {r \in Range(c.replica_sets) :
                      /\ r.namespace = pod.namespace
                      /\ \E w \in Range(pod.owner_references) :
                           w.kind = "ReplicaSet" /\ w.name = r.name}}}

\* The deployments the labels of a pod name that exist in its namespace.
LabelDeployments(c, pod) ==
  {pod.labels[key] : key \in DOMAIN pod.labels}
    \cap {d.name : d \in {x \in Range(c.deployments) : x.namespace = pod.namespace}}

\* A discovery found the pod it was called for, the namespace known or not,
\* without a deployment name, on a cluster that answers the reads of replica
\* sets and deployments.
ResolutionCalled ==
  /\ call # Null
  /\ call.op = "get_k8s_context"
  /\ TruthyStr(call.pod_name)
  /\ ~TruthyStr(call.deployment_name)
  /\ ~call.raised
  /\ PodFound(call.context)
  /\ call.context.pod.name = call.pod_name
  /\ \A f \in cluster.faults :
       f.op \notin {"read_namespaced_replica_set", "read_namespaced_deployment"}

\* The deployment a discovery resolved: found_deployment when the namespace
\* was searched, the name of the deployment document when it was known.
Resolved ==
  IF ~TruthyStr(call.namespace) THEN call.context.discovery_info.found_deployment
  ELSE IF "name" \in DOMAIN call.context.deployment THEN call.context.deployment.name
  ELSE None

\* C20: when the found pod is owned by a replica set that is owned by a
\* deployment, that deployment is the one resolved, whatever the labels of
\* the pod name; a deployment named by a label is resolved only when the
\* ownership chain leads to none.
C20_OwnershipFirst ==
  ResolutionCalled
  => LET pod == PodIn(cluster, call.context.pod.namespace, call.pod_name)
         chain == ChainDeployments(cluster, pod)
     IN /\ chain # {}
             => \/ Resolved \in chain
                \/ /\ TruthyStr(call.namespace)
                   /\ Resolved = None
                   /\ chain \cap {d.name : d \in Range(cluster.deployments)} = {}
        /\ chain = {}
             => Resolved \in LabelDeployments(cluster, pod) \cup {None}
        /\ (Resolved # None /\ Resolved \notin chain) => chain = {}

\* The pod is owned by rs-a of deployment web and carries a label naming the
\* existing deployment api; web is resolved.
C20_Witness ==
  /\ ResolutionCalled
  /\ ~TruthyStr(call.namespace)
  /\ LET pod == PodIn(cluster, call.context.pod.namespace, call.pod_name)
     IN /\ ChainDeployments(cluster, pod) = {"web"}
        /\ LabelDeployments(cluster, pod) = {"api"}
        /\ Resolved = "web"

\* A discovery of a pod was called without a deployment name on a cluster
\* that answers the listing of the namespaces, the reads of pods and the
\* listing of events; ns is the namespace the pod is looked up in.
LookedUpIn(ns) ==
  /\ call # Null
  /\ call.op = "get_k8s_context"
  /\ TruthyStr(call.pod_name)
  /\ ~TruthyStr(call.deployment_name)
  /\ cluster.config
  /\ \A f \in cluster.faults :
       f.op \in {"read_namespaced_replica_set", "read_namespaced_deployment"}
  /\ Readable(cluster, ns, call.pod_name)
  /\ IF TruthyStr(call.namespace) THEN ns = call.namespace
     ELSE \E i \in 1..Len(Tried(cluster)) :
            /\ Tried(cluster)[i] = ns
            /\ \A j \in 1..(i - 1) : ~Readable(cluster, Tried(cluster)[j], call.pod_name)

\* Neither the ownership chain nor a label of the pod leads to a deployment.
NothingToResolve(pod) ==
  ChainDeployments(cluster, pod) = {} /\ LabelDeployments(cluster, pod) = {}

\* C21: a discovery of a found pod for which neither the ownership chain nor
\* a label resolves a deployment raises nothing and returns the pod without
\* an error, with its events and with the deployment marked as not found: the
\* document "No deployment found for this pod" when the namespace was known,
\* an empty document and no found_deployment when it was searched.
C21_UnresolvedDeploymentIsNoFailure ==
  \A ns \in Range(cluster.namespaces) :
    (LookedUpIn(ns) /\ NothingToResolve(PodIn(cluster, ns, call.pod_name)))
    => /\ ~call.raised
       /\ PodFound(call.context)
       /\ call.context.pod.name = call.pod_name
       /\ call.context.pod.namespace = ns
       /\ call.context.events # <<>>
       /\ Resolved = None
       /\ IF TruthyStr(call.namespace)
          THEN call.context.deployment = [error |-> "No deployment found for this pod"]
          ELSE /\ call.context.deployment = EmptyDict
               /\ call.context.discovery_info.found_namespace = ns

\* The namespace is known, the pod's replica set has no owner and its only
\* label names a deployment that does not exist.
C21_Witness ==
  /\ LookedUpIn("ops-x")
  /\ TruthyStr(call.namespace)
  /\ LET pod == PodIn(cluster, "ops-x", call.pod_name)
     IN /\ NothingToResolve(pod)
        /\ pod.owner_references # <<>>
        /\ DOMAIN pod.labels = {"app"}
  /\ call.context.deployment = [error |-> "No deployment found for this pod"]

\* C22 (as claimed): in a namespace-unknown discovery on a cluster that lists
\* its namespaces and where only reads of the pod fail, a failing read counts
\* as "not in this namespace": the pod is found in the first namespace of the
\* search order where its read is answered, and when there is none every
\* listed namespace was tried and the pod is reported as not found.
C22_ReadFailuresSkipped ==
  (/\ call # Null
   /\ call.op = "get_k8s_context"
   /\ ~TruthyStr(call.namespace)
   /\ TruthyStr(call.pod_name)
   /\ cluster.config
   /\ \A f \in cluster.faults : f.op = "read_namespaced_pod")
  => LET tried == Tried(cluster)
         hits == {i \in 1..Len(tried) : Readable(cluster, tried[i], call.pod_name)}
         info == call.context.discovery_info
     IN /\ ~call.raised
        /\ hits # {}
             => /\ PodFound(call.context)
                /\ \E k \in hits : /\ \A j \in hits : k <= j
                                   /\ info.found_namespace = tried[k]
                                   /\ info.searched_namespaces = SubSeq(tried, 1, k)
        /\ hits = {}
             => /\ call.context.pod
                     = [error |-> "Pod " \o call.pod_name \o " not found in any namespace"]
                /\ info.searched_namespaces = tried

\* C30 (as claimed): a namespace-unknown discovery, of either copy of the
\* discovery, on a cluster that answers reads the listed priority namespaces
\* first and then the other listed namespaces in listing order, and stops at
\* the first one holding the pod: found_namespace is the earliest namespace
\* of that order holding the pod and no namespace after it was read.
C30_PriorityThenListingOrder ==
  (/\ call # Null
   /\ call.op \in {"get_k8s_context", "context.get_k8s_context"}
   /\ ~TruthyStr(call.namespace)
   /\ TruthyStr(call.pod_name)
   /\ cluster.config
   /\ cluster.faults = {})
  => LET tried == Tried(cluster)
         hits == {i \in 1..Len(tried) : Readable(cluster, tried[i], call.pod_name)}
         info == call.context.discovery_info
     IN IF hits = {} THEN info.searched_namespaces = tried
        ELSE \E k \in hits : /\ \A j \in hits : k <= j
                             /\ info.found_namespace = tried[k]
                             /\ call.context.pod.namespace = tried[k]
                             /\ info.searched_namespaces = SubSeq(tried, 1, k)

\* C28: every processing pass begins with the PROCESSING write.  A pass
\* starts in its first position with no event retrieved, no discovery run and
\* no exception caught; it stays there until a step issues
\* update_alert_status(alert_hash, PROCESSING), and that step retrieves no
\* event, runs no discovery and ends no pass; only passes that have left the
\* first position retrieve the event, discover or write ENRICHED or FAILED.
C28_PickupWriteFirst ==
  /\ [](\A k \in 1..Len(tasks) :
          tasks[k].stage = "start"
          => /\ tasks[k].event = "none"
             /\ tasks[k].discovery = "none"
             /\ tasks[k].event_details = Null
             /\ tasks[k].k8s_context = Null)
  /\ [][/\ Len(tasks') > Len(tasks) => tasks'[Len(tasks')].stage = "start"
        /\ \A k \in 1..Len(tasks) :
             tasks[k].stage = "start" /\ tasks' # tasks
             => /\ \E ok \in BOOLEAN :
                     alerts' = update_alert_status(alerts, tasks[k].alert_hash,
                                                   PROCESSING, None, Null, now, ok)
                /\ Len(tasks') = Len(tasks)
                /\ tasks'[k].event_details = Null
                /\ tasks'[k].k8s_context = Null
                /\ tasks'[k].discovery = "none"
                /\ lastpass' = lastpass
        /\ \A k \in 1..Len(tasks) :
             (tasks' # tasks /\ tasks[k].stage # "start")
             => \A h \in Hashes :
                  (h = tasks[k].alert_hash /\ HasRow(alerts, h)
                   /\ tasks[k].flip_ok /\ tasks[k].stage = "event")
                  => RowOf(alerts, h).status = PROCESSING]_vars

\* A pass whose PROCESSING write was applied has retrieved the event and run
\* the discovery, and the alert is still PROCESSING.
C28_Witness ==
  \E k \in 1..Len(tasks) :
    /\ tasks[k].flip_ok
    /\ tasks[k].stage = "enrich"
    /\ tasks[k].discovery = "found"
    /\ HasRow(alerts, tasks[k].alert_hash)
    /\ RowOf(alerts, tasks[k].alert_hash).status = PROCESSING

\* C29 (as claimed): a poll whose fetch fails -- alerts are pending, yet the
\* worker is handed none -- is followed by the back-off sleep of 10 seconds
\* instead of the poll interval of 5.
C29_BackoffAfterFailedFetch ==
  [][(/\ wpc = "poll"
      /\ wpc' # "poll"
      /\ PendingRows(alerts, now) # {}
      /\ batch' = <<>>)
     => (wpc' = "sleep" /\ wait' = BackoffSeconds)]_vars

\* The set of the elements of a sequence.
Elements(seq) == {seq[i] : i \in 1..Len(seq)}

\* The command starts with kubectl, whatever the case, and holds one of the
\* destructive verbs.
DestructiveKubectl(cmd) ==
  LET words == Strip(Lower(cmd))
  IN /\ words # <<>>
     /\ IsPrefix("kubectl", words[1])
     /\ \E verb \in {"delete", "destroy", "remove"} :
          \E i \in 1..Len(words) : IsInfix(verb, words[i])

SafetyCalled == call # Null /\ call.op = "validate_solution_safety"

\* C23: when one of the commands handed to the safety validation starts with
\* kubectl (in any case) and holds a destructive verb, the validation returns
\* a result of risk level HIGH whose safety issues hold "Destructive kubectl
\* command: " followed by that command as it was written.
C23_DestructiveKubectlIsHigh ==
  SafetyCalled =>
    \A cmd \in Elements(call.commands) :
      DestructiveKubectl(cmd) =>
        /\ ~call.raised
        /\ call.result.risk_level = "HIGH"
        /\ Message("Destructive kubectl command: ", cmd)
             \in Elements(call.result.safety_issues)

\* A pattern of the deny list lies in the lower case of the text.
Denied(text) ==
  \E pattern \in Elements(dangerous_commands) : Contains(Lower(text), pattern)

\* C24: the safety validation returns, for every solution text and command
\* list, unsafe with risk HIGH and at least one safety issue when a pattern
\* of the deny list matches the text or one of the commands, and safe with
\* risk LOW and no safety issue when none does; never risk MEDIUM.
C24_UnsafeExactlyOnMatch ==
  SafetyCalled =>
    LET matched == \/ Denied(call.solution_text)
                   \/ \E cmd \in Elements(call.commands) :
                        Denied(cmd) \/ DestructiveKubectl(cmd)
    IN /\ ~call.raised
       /\ call.result.risk_level \in {"HIGH", "LOW"}
       /\ matched => /\ ~call.result.is_safe
                      /\ call.result.risk_level = "HIGH"
                      /\ call.result.safety_issues # <<>>
       /\ ~matched => /\ call.result.is_safe
                       /\ call.result.risk_level = "LOW"
                       /\ call.result.safety_issues = <<>>

\* The keywords of the sequence that lie in the lower case of the content,
\* each counted once.
Hits(keywords, content) ==
  Cardinality({k \in 1..Len(keywords) : Contains(Lower(content), keywords[k])})

PriorityCalled == call # Null /\ call.op = "_determine_priority"

\* C27: with h the number of high-urgency keywords and l the number of
\* low-urgency keywords that lie in the text (substrings, whatever the case),
\* the priority is High exactly when h > l and h > 0, otherwise Low exactly
\* when l > 0, otherwise Medium: a tie h = l > 0 is Low, h = l = 0 is Medium.
C27_PriorityByKeywordCounts ==
  PriorityCalled =>
    LET h == Hits(high_priority_keywords, call.content)
        l == Hits(low_priority_keywords, call.content)
    IN /\ call.priority = "High" <=> (h > l /\ h > 0)
       /\ call.priority = "Low" <=> (~(h > l /\ h > 0) /\ l > 0)
       /\ call.priority = "Medium" <=> (~(h > l /\ h > 0) /\ l = 0)

\* A tie of one high-urgency and one low-urgency keyword, answered Low.
C27_Witness ==
  /\ PriorityCalled
  /\ Hits(high_priority_keywords, call.content) = 1
  /\ Hits(low_priority_keywords, call.content) = 1
  /\ call.priority = "Low"

\* The elements of seq at the indices of K, in the order of seq.
Kept(seq, K) ==
  LET F[i \in 0..Len(seq)] ==
        IF i = 0 THEN <<>>
        ELSE IF i \in K THEN Append(F[i - 1], seq[i])
        ELSE F[i - 1]
  IN F[Len(seq)]

\* The sequence without the later occurrences of its elements.
FirstSeen(seq) == Kept(seq, {i \in 1..Len(seq) : \A j \in 1..(i - 1) : seq[j] # seq[i]})

ExtractCalled == call # Null /\ call.op = "_extract_commands"

\* C26: the extracted command list has no duplicates and at most 10 entries,
\* and it is the first 10 elements of the collected sequence (the lines of
\* the fenced blocks that are not comments, then the inline kubectl, helm,
\* docker and systemctl invocations) with the duplicates removed, each
\* command at the place where it was first seen.
C26_FirstTenDistinctInOrder ==
  ExtractCalled =>
    LET commands == call.commands
        distinct == FirstSeen(collected_commands(call.content))
    IN /\ \A i, j \in 1..Len(commands) : commands[i] = commands[j] => i = j
       /\ Len(commands) <= 10
       /\ commands = SubSeq(distinct, 1, IF Len(distinct) < 10 THEN Len(distinct) ELSE 10)

\* More than 10 distinct commands were collected, one of the first ten twice.
C26_Witness ==
  /\ ExtractCalled
  /\ LET collected == collected_commands(call.content)
     IN /\ Cardinality(Elements(collected)) > 10
        /\ \E i, j \in 1..10 : i < j /\ collected[i] = collected[j]
  /\ Len(call.commands) = 10

ParseCalled == call # Null /\ call.op = "parse_llm_response"

\* One of the names occurs in the text, in whatever case.
Named(text, names) ==
  \E k \in 1..Len(names) : Contains(Lower(text), names[k])

\* A code fence or the name of one of the four tools occurs in the text.
HoldsCommand(text) ==
  \E i \in 1..Len(text) :
    \E mark \in {Fence, "kubectl", "helm", "docker", "systemctl"} : IsInfix(mark, text[i])

\* C25: parse_llm_response raises nothing (it returns its dict, and not the
\* one of a parsing failure); a section none of whose names occurs in the
\* text is the empty string, and the command list is empty when the text holds
\* no code fence and no tool name: a text without any heading, fenced block
\* and tool invocation gives four empty sections and no command.
C25_NothingRecognisedGivesEmpty ==
  ParseCalled =>
    LET text == call.llm_content
        solution == call.solution
    IN /\ ~Named(text, section_names.analysis) => solution.analysis = <<>>
       /\ ~Named(text, section_names.root_cause) => solution.root_cause = <<>>
       /\ ~Named(text, section_names.solution) => solution.solution = <<>>
       /\ ~Named(text, section_names.prevention) => solution.prevention = <<>>
       /\ ~HoldsCommand(text) => solution.commands = <<>>
       /\ solution.solution # <<"Manual", "review", "required", "due", "to",
                                 "parsing", "failure">>

\* A text of two lines of words without a heading, a fence or a tool name,
\* parsed to four empty sections and no command.
C25_Witness ==
  /\ ParseCalled
  /\ \E i \in 2..(Len(call.llm_content) - 1) : call.llm_content[i] = NL
  /\ \A names \in {section_names.analysis, section_names.root_cause,
                    section_names.solution, section_names.prevention} :
       ~Named(call.llm_content, names)
  /\ ~HoldsCommand(call.llm_content)
  /\ call.solution.analysis = <<>>
  /\ call.solution.root_cause = <<>>
  /\ call.solution.solution = <<>>
  /\ call.solution.prevention = <<>>
  /\ call.solution.commands = <<>>

\* A namespace-known discovery of a pod was called and returned.
LookupCalled ==
  /\ call # Null
  /\ call.op = "get_k8s_context"
  /\ TruthyStr(call.namespace)
  /\ TruthyStr(call.pod_name)
  /\ ~call.raised

\* The indices of the pods of namespace ns of c whose name contains pod_name.
Similar(c, ns, pod_name) ==
  {i \in 1..Len(c.pods) :
     c.pods[i].namespace = ns /\ IsSubstring(pod_name, c.pods[i].name)}

\* C31: in a namespace-known discovery on a cluster that answers the pod
\* reads, a pod that is read directly is returned without a warning; when the
\* read reports not-found, the result is a most recently created pod among
\* the pods of the namespace whose name contains the requested name, with a
\* warning, and an error when no name contains it.
C31_FallbackToLatestSimilar ==
  (/\ LookupCalled
   /\ FaultOf(cluster, "read_namespaced_pod", call.namespace) = "none"
   /\ FaultOf(cluster, "list_namespaced_pod", call.namespace) = "none")
  => LET pod == call.context.pod
         similar == Similar(cluster, call.namespace, call.pod_name)
     IN IF Readable(cluster, call.namespace, call.pod_name)
        THEN /\ DOMAIN pod \cap {"error", "warning"} = {}
             /\ pod.name = call.pod_name
             /\ pod.namespace = call.namespace
        ELSE IF similar # {}
        THEN /\ "error" \notin DOMAIN pod
             /\ "warning" \in DOMAIN pod
             /\ pod.namespace = call.namespace
             /\ \E i \in similar :
                  /\ pod.name = cluster.pods[i].name
                  /\ \A j \in similar : cluster.pods[j].creation_timestamp
                                           <= cluster.pods[i].creation_timestamp
        ELSE /\ "error" \in DOMAIN pod
             /\ "warning" \notin DOMAIN pod

\* The namespace lists p1-a, created at 1, before p1-b, created at 2, and no
\* p1: the discovery of p1 returns p1-b with the warning.
C31_Witness ==
  /\ LookupCalled
  /\ ~Readable(cluster, call.namespace, call.pod_name)
  /\ \E i, j \in Similar(cluster, call.namespace, call.pod_name) :
       /\ i < j
       /\ cluster.pods[i].name = "p1-a"
       /\ cluster.pods[j].name = "p1-b"
       /\ cluster.pods[i].creation_timestamp < cluster.pods[j].creation_timestamp
  /\ "warning" \in DOMAIN call.context.pod
  /\ call.context.pod.name = "p1-b"

\* C32 (as claimed): whenever a discovery identifies a pod -- read directly,
\* matched approximately or found by the namespace search -- on a cluster
\* that answers the event listing, the events of the context are the events
\* listed for the identified pod's name in the identified pod's namespace.
C32_EventsOfIdentifiedPod ==
  (/\ call # Null
   /\ call.op = "get_k8s_context"
   /\ ~call.raised
   /\ PodFound(call.context)
   /\ FaultOf(cluster, "list_namespaced_event", call.context.pod.namespace) = "none")
  => call.context.events
       = _get_pod_events(cluster, call.context.pod.namespace,
                         call.context.pod.name).value

\* C33: when the ownership chain of the found pod leads to no deployment, the
\* deployment resolved is the value of the first of the keys
\* app.kubernetes.io/name, app, k8s-app that the pod carries with a value
\* naming a deployment of the pod's namespace; keys that are absent or name
\* no such deployment are passed over, and nothing is resolved when there is
\* no such key.
C33_FirstLabelNamingADeployment ==
  ResolutionCalled
  => LET pod == PodIn(cluster, call.context.pod.namespace, call.pod_name)
         keys == <<"app.kubernetes.io/name", "app", "k8s-app">>
         existing == {d.name : d \in {x \in Range(cluster.deployments) :
                                        x.namespace = pod.namespace}}
         hits == {i \in 1..Len(keys) : /\ keys[i] \in DOMAIN pod.labels
                                        /\ pod.labels[keys[i]] \in existing}
     IN ChainDeployments(cluster, pod) = {}
        => IF hits = {} THEN Resolved = None
           ELSE \E i \in hits : /\ \A j \in hits : i <= j
                                 /\ Resolved = pod.labels[keys[i]]

\* The pod carries app.kubernetes.io/name = ghost, app = web and
\* k8s-app = api, web and api exist and ghost does not: web is resolved.
C33_Witness ==
  /\ ResolutionCalled
  /\ LET pod == PodIn(cluster, call.context.pod.namespace, call.pod_name)
     IN /\ ChainDeployments(cluster, pod) = {}
        /\ pod.owner_references # <<>>
        /\ DOMAIN pod.labels = Range(deployment_labels)
        /\ pod.labels["app.kubernetes.io/name"] = "ghost"
        /\ pod.labels["app"] = "web"
        /\ pod.labels["k8s-app"] = "api"
        /\ LabelDeployments(cluster, pod) = {"web", "api"}
  /\ Resolved = "web"

\* C34 (as claimed): an alert that has been through a processing pass,
\* whatever became of the status writes of the pass, is not returned by a
\* later get_pending, and so is not handed to processing a second time.
C34_NeverPendingAfterAPass ==
  \A h \in Hashes : lastpass[h] # Null => h \notin PendingNow

\* C35 (as claimed): two submissions that both pass the validation and whose
\* payloads differ in event_id or in alert_id have different alert hashes,
\* and the later one, once saved, is an inserted row of its own.
C35_IdentifiersSeparateAlerts ==
  \A r1, r2 \in 1..Len(reqs) :
     (/\ r1 < r2
      /\ _validate_payload(reqs[r1].payload)
      /\ _validate_payload(reqs[r2].payload)
      /\ \/ reqs[r1].payload.event_id # reqs[r2].payload.event_id
         \/ reqs[r1].payload.alert_id # reqs[r2].payload.alert_id)
     => /\ reqs[r1].alert_hash # reqs[r2].alert_hash
        /\ (reqs[r1].save = "inserted" /\ reqs[r2].resp = "accepted")
             => reqs[r2].save = "inserted"

\* C36: the step that answers a submission after its save answers
\* "accepted" only with a row of the returned alert hash in the store, and
\* answers a failed save with an error, leaving the store as it was.
C36_AcceptedMeansStored ==
  [][ \A r \in 1..Len(reqs) :
         (reqs[r].pc = "save" /\ reqs'[r].pc = "done")
         => /\ reqs'[r].resp \in {"accepted", "error"}
            /\ reqs'[r].resp = "accepted"
                 => /\ reqs'[r].save # "failed"
                    /\ HasRow(alerts', reqs'[r].alert_hash)
            /\ reqs'[r].save = "failed"
                 => /\ reqs'[r].resp = "error"
                    /\ alerts' = alerts ]_vars

\* One submission was saved and accepted, the save of another failed and it
\* was answered with an error.
C36_Witness ==
  \E r1, r2 \in 1..Len(reqs) :
     /\ reqs[r1].save = "inserted"
     /\ reqs[r1].resp = "accepted"
     /\ HasRow(alerts, reqs[r1].alert_hash)
     /\ reqs[r2].save = "failed"
     /\ reqs[r2].resp = "error"
     /\ ~HasRow(alerts, reqs[r2].alert_hash)

\* C37: every stored alert that carries enriched_data is ENRICHED or
\* RESOLVED, so that none in RECEIVED, PROCESSING or FAILED carries it, and a
\* status write without enriched_data, whatever its status and whether the
\* backend applies it or not, would leave the enriched_data of the alert as
\* it is.
C37_EnrichmentOnlyWhenEnriched ==
  \A i \in 1..Len(alerts) :
     /\ alerts[i].enriched_data # Null => alerts[i].status \in {ENRICHED, RESOLVED}
     /\ alerts[i].status \in {RECEIVED, PROCESSING, FAILED}
          => alerts[i].enriched_data = Null
     /\ \A status \in AlertStatus, ok \in BOOLEAN :
          update_alert_status(alerts, alerts[i].alert_hash, status, None, Null,
                              now, ok)[i].enriched_data
            = alerts[i].enriched_data

\* An alert whose pass wrote ENRICHED with its enrichment document, next to
\* an alert that FAILED and carries none.
C37_Witness ==
  \E i, j \in 1..Len(alerts) :
     /\ alerts[i].status = ENRICHED
     /\ alerts[i].enriched_data # Null
     /\ json_loads(alerts[i].enriched_data).enrichment_status = "success"
     /\ alerts[j].status = FAILED
     /\ alerts[j].enriched_data = Null

\* A command that contains delete, rm or destroy.
DestructiveIn(commands) ==
  \E i \in 1..Len(commands) :
     \E risk_cmd \in {"delete", "rm", "destroy"} : Contains(Lower(commands[i]), <<risk_cmd>>)

\* C38: when one of the extracted commands contains delete, rm or destroy,
\* the risk level the engine assesses, and that of the IncidentAnalysis it
\* builds or returns, is HIGH, whatever the solution text is.
C38_DestructiveCommandIsHighRisk ==
  call # Null =>
    /\ call.op = "_assess_risk_level" /\ DestructiveIn(call.commands)
         => call.risk_level = RiskLevel("HIGH")
    /\ call.op = "_parse_llm_response" /\ DestructiveIn(call.incident_analysis.commands)
         => call.incident_analysis.risk_level = RiskLevel("HIGH")
    /\ call.op = "analyze_incident" /\ ~call.raised
         /\ DestructiveIn(call.result.incident_analysis.commands)
         => call.result.incident_analysis.risk_level = RiskLevel("HIGH")

\* C39: analyze_incident raises nothing, and a call in which the context
\* preparation, the call of the model, the parsing or the safety validation
\* failed returns a result with success false, the message of the error and
\* the fallback analysis, which has no command and confidence 0.
C39_AnalyzeIncidentNeverRaises ==
  call # Null /\ call.op = "analyze_incident" =>
    /\ ~call.raised
    /\ LET failed ==
             \/ prepare_context_raises(call.enriched_data)
             \/ generate_solution(call.reply).exc # "none"
             \/ _validate_solution_safety(
                  _parse_llm_response(generate_solution(call.reply).value, "7")).exc # "none"
       IN failed =>
            /\ call.result.success = FALSE
            /\ call.result.error_message # None
            /\ call.result.incident_analysis.commands = <<>>
            /\ call.result.incident_analysis.confidence_score = 0

\* The pairs the get_clients calls that have returned gave back.
ReturnedPairs ==
  {manager.threads[t].returned : t \in {u \in Threads :
      /\ manager.threads[u].pc = "idle"
      /\ manager.threads[u].returned # Null}}

\* C40: as long as no reset has been called, whatever the interleaving of
\* the constructions and of the get_clients calls, there is one manager
\* instance and every construction returns it, the configuration has been
\* loaded and each of the two clients constructed at most once, and every
\* get_clients call that returns gives back the same pair, neither client
\* of which is None.
C40_OneManagerOnePair ==
  manager.resets = 0 =>
    /\ Len(manager.instances) <= 1
    /\ \A t \in Threads :
         manager.threads[t].self # 0 =>
           /\ Len(manager.instances) = 1
           /\ manager.threads[t].self = manager._instance
    /\ manager.loads <= 1
    /\ manager.v1_built <= 1
    /\ manager.apps_built <= 1
    /\ \A pair \in ReturnedPairs : pair[1] # 0 /\ pair[2] # 0
    /\ Cardinality(ReturnedPairs) <= 1

\* A thread that found a client missing outside the lock holds the lock and
\* is about to test again, the pair has been constructed meanwhile, and
\* another thread has had it returned.
C40_Witness ==
  /\ manager.resets = 0
  /\ \E t, u \in Threads :
       /\ t # u
       /\ manager.threads[t].pc = "g43"
       /\ ~clients_missing(manager.instances[manager.threads[t].self])
       /\ manager.threads[u].pc = "idle"
       /\ manager.threads[u].returned = <<1, 1>>

====
